---- MODULE Spec2Model ----
(***************************************************************************)
(* Model of the model router (lib/model-router: telemetry store, scorer,   *)
(* selector) and of the large-document extractor                            *)
(* (app/(1-extraction)/streaming-extraction.ts: checkpointing, retries,    *)
(* fallback summarization, reduction).                                      *)
(*                                                                         *)
(* Numbers.  The router computes in IEEE doubles.  Here every finite       *)
(* number is an exact fraction n/d (d > 0) and the one non-finite value    *)
(* the scorer can produce from non-negative latencies (0/0) is NaN.        *)
(* Money is in cents (0.15 $ = 15), capabilities in hundredths (0.9 = 90), *)
(* weights in tenths (0.3 = 3); the scaling is undone where the values are *)
(* used, so scores are the real-number values of the code's expressions.   *)
(***************************************************************************)
EXTENDS Integers, Sequences, FiniteSets, TLC

VARIABLES
  telemetryStore,   \* const telemetryStore: CallTelemetry[]
  history,          \* every entry ever handed to recordTelemetry, in arrival order
  lastCall,         \* the most recent completed router call and what it returned
  pc,               \* extractLargeDocument: position of the (single) extraction task
  ckptFile,         \* the checkpoint file of the document (NoFile when absent)
  progress,         \* const progress: ProgressTracker
  chunkCount,       \* chunks.length of the current run
  todo,             \* the part of chunksToProcess the for-loop has not reached yet
  cur,              \* chunkIndex of the loop iteration in progress
  retries,          \* processChunk's retries argument of the attempt in progress
                    \* (0 when no processChunk call is active)
  lastError,        \* error.message caught last in the chunk being handled ("" if none)
  run,              \* observations of the current run (see NoRun)
  memo,             \* an earlier selectModel call kept for comparison (see NoMemo)
  chunking,         \* a chunkText call: its arguments and what it returned
  reduction,        \* reduceResults calls on one list: the list before and after,
                    \* and what the calls returned
  comparison        \* the compareFastVsReasoning run of the process (see NoComparison)

telVars == <<telemetryStore, history, lastCall>>
exVars == <<pc, ckptFile, progress, chunkCount, todo, cur, retries, lastError, run>>
fnVars == <<memo, chunking, reduction, comparison>>
vars == <<telemetryStore, history, lastCall, pc, ckptFile, progress, chunkCount,
          todo, cur, retries, lastError, run, memo, chunking, reduction, comparison>>

----------------------------------------------------------------------------
(* Bounds *)

\* recordTelemetry calls explored with freely chosen entries (router runs)
MaxRecords == 6
\* recordTelemetry calls already made when the telemetry runs start
PreRecorded == 998
\* recordTelemetry calls explored after those
MaxBurst == 6
\* recordTelemetry calls explored in the replay runs
MaxReplayRecords == 3
\* recordTelemetry calls already made when a query run starts with a filled log
\* (more than 100 per model)
QueryPreRecorded == 240
\* recordTelemetry calls explored in the query runs, after the pre-recorded ones
MaxQueryBurst == 3
\* recordTelemetry calls already made when a frame run starts: six of them for one
\* model, the others for another
FramePreRecorded == 996
\* recordTelemetry calls explored in the frame runs, after the pre-recorded ones
MaxFrameBurst == 6
\* recordTelemetry calls explored in the routing-statistics runs, after the
\* pre-recorded ones
MaxRoutingBurst == 3
\* characters of a document handed to chunkText
MaxDocLen == 9

\* longest list of chunk results reduceResults is applied to
MaxResults == 4
\* chunks a document is split into
MaxChunks == 2
\* runs of extractLargeDocument on the document (a run ends by returning or crashing)
MaxRuns == 2

----------------------------------------------------------------------------
(* Exact arithmetic *)

Abs(x) == IF x < 0 THEN -x ELSE x

RECURSIVE GCD(_, _)
GCD(a, b) == IF b = 0 THEN a ELSE GCD(b, a % b)

NaN == [k |-> "nan", n |-> 0, d |-> 1]

IsNaN(x) == x.k = "nan"

\* the number n/d, d > 0, in lowest terms
Rat(n, d) ==
  LET g == GCD(Abs(n), d) IN [k |-> "num", n |-> n \div g, d |-> d \div g]

NumAdd(x, y) ==
  IF IsNaN(x) \/ IsNaN(y) THEN NaN
  ELSE LET g == GCD(x.d, y.d)
       IN Rat(x.n * (y.d \div g) + y.n * (x.d \div g), (x.d \div g) * y.d)

NumMul(x, y) ==
  IF IsNaN(x) \/ IsNaN(y) THEN NaN
  ELSE LET g1 == GCD(Abs(x.n), y.d)
           g2 == GCD(Abs(y.n), x.d)
       IN Rat((x.n \div g1) * (y.n \div g2), (x.d \div g2) * (y.d \div g1))

\* a/b < c/d for b, d > 0, by the continued-fraction expansion (no products)
RECURSIVE FracLess(_, _, _, _)
FracLess(a, b, c, d) ==
  LET qa == a \div b
      qc == c \div d
      ra == a % b
      rc == c % d
  IN IF qa # qc THEN qa < qc
     ELSE IF rc = 0 THEN FALSE
     ELSE IF ra = 0 THEN TRUE
     ELSE FracLess(d, rc, b, ra)

\* JavaScript x < y : false when either side is NaN
NumLess(x, y) == ~IsNaN(x) /\ ~IsNaN(y) /\ FracLess(x.n, x.d, y.n, y.d)

\* JavaScript x <= y
NumLeq(x, y) == ~IsNaN(x) /\ ~IsNaN(y) /\ ~FracLess(y.n, y.d, x.n, x.d)

\* Math.max(0, x): NaN if x is NaN
NumMax0(x) == IF IsNaN(x) THEN NaN ELSE IF x.n < 0 THEN Rat(0, 1) ELSE x

\* xs.reduce((a, b) => a + b, 0) on integers (halved to keep the evaluation shallow)
RECURSIVE SumSeq(_)
SumSeq(s) ==
  IF Len(s) = 0 THEN 0
  ELSE IF Len(s) = 1 THEN s[1]
  ELSE LET h == Len(s) \div 2
       IN SumSeq(SubSeq(s, 1, h)) + SumSeq(SubSeq(s, h + 1, Len(s)))

\* Array.prototype.reverse
Reverse(s) == [i \in 1..Len(s) |-> s[Len(s) + 1 - i]]

\* Array.prototype.slice(-limit), limit >= 0: slice(-0) is slice(0), the whole array
SliceLast(s, limit) ==
  IF limit = 0 \/ limit >= Len(s) THEN s
  ELSE SubSeq(s, Len(s) - limit + 1, Len(s))

----------------------------------------------------------------------------
(* Model registry and router configuration *)

MAX_TELEMETRY_ENTRIES == 1000

Tasks == {"classification", "summarization", "reasoning", "extraction"}

Priorities == {"cost", "quality", "balanced"}

MODEL_REGISTRY == <<
  [fullName |-> "openai/gpt-5-mini", baseCostPer1kTokens |-> 15,
   baseCostPer1kOutputTokens |-> 60, avgLatencyMs |-> 500, capabilityTier |-> "standard",
   taskCapabilities |-> [classification |-> 90, summarization |-> 85,
                         reasoning |-> 60, extraction |-> 90]],
  [fullName |-> "openai/gpt-5", baseCostPer1kTokens |-> 250,
   baseCostPer1kOutputTokens |-> 1000, avgLatencyMs |-> 1500, capabilityTier |-> "advanced",
   taskCapabilities |-> [classification |-> 95, summarization |-> 95,
                         reasoning |-> 85, extraction |-> 95]],
  [fullName |-> "openai/gpt-5.1-thinking", baseCostPer1kTokens |-> 300,
   baseCostPer1kOutputTokens |-> 1200, avgLatencyMs |-> 5000, capabilityTier |-> "reasoning",
   taskCapabilities |-> [classification |-> 90, summarization |-> 85,
                         reasoning |-> 98, extraction |-> 90]],
  [fullName |-> "openai/gpt-4o-mini", baseCostPer1kTokens |-> 15,
   baseCostPer1kOutputTokens |-> 60, avgLatencyMs |-> 400, capabilityTier |-> "basic",
   taskCapabilities |-> [classification |-> 85, summarization |-> 80,
                         reasoning |-> 50, extraction |-> 85]] >>

\* the estimatedTokens property of a config: absent, a number, or (from a caller
\* that bypasses the types) a string
Undefined == [type |-> "undefined", value |-> 0]

Number(n) == [type |-> "number", value |-> n]

AString == [type |-> "string", value |-> 0]

\* variant: maxLatencyMs is z.number() without .min(0)
RouterConfigSchemaNoMin(config) ==
  /\ config.task \in Tasks
  /\ config.priority \in Priorities
  /\ config.estimatedTokens.type \in {"undefined", "number"}

\* RouterConfigSchema.parse: does the config pass validation?
RouterConfigSchema(config) ==
  /\ config.task \in Tasks
  /\ config.maxLatencyMs >= 0
  /\ config.priority \in Priorities
  /\ config.estimatedTokens.type \in {"undefined", "number"}

----------------------------------------------------------------------------
(* Telemetry store *)

\* variant: the length check is missing
recordTelemetryNoEvict(store, telemetry) == Append(store, telemetry)

\* variant: pop() instead of shift()
recordTelemetryPop(store, telemetry) ==
  LET pushed == Append(store, telemetry)
  IN IF Len(pushed) > MAX_TELEMETRY_ENTRIES
     THEN SubSeq(pushed, 1, Len(pushed) - 1) ELSE pushed

\* the array after recordTelemetry(telemetry)
recordTelemetry(store, telemetry) ==
  LET pushed == Append(store, telemetry)
  IN IF Len(pushed) > MAX_TELEMETRY_ENTRIES THEN Tail(pushed) ELSE pushed

\* variant: the filter by model is missing
getModelTelemetryAnyModel(store, model, limit) == Reverse(SliceLast(store, limit))

getModelTelemetry(store, model, limit) ==
  LET ofModel(t) == t.model = model
  IN Reverse(SliceLast(SelectSeq(store, ofModel), limit))

\* Math.min(...xs) and Math.max(...xs) of a non-empty array
MinSeq(s) == CHOOSE x \in {s[i] : i \in 1..Len(s)} : \A i \in 1..Len(s) : x <= s[i]

MaxSeq(s) == CHOOSE x \in {s[i] : i \in 1..Len(s)} : \A i \in 1..Len(s) : x >= s[i]

Succeeded(t) == t.success

\* variant: the oldest 100 entries of the model instead of the most recent
getModelStatsOldest(store, model) ==
  LET ofModel(t) == t.model = model
      own == SelectSeq(store, ofModel)
      modelTelemetry == IF Len(own) > 100 THEN SubSeq(own, 1, 100) ELSE own
      latencies == [i \in 1..Len(modelTelemetry) |-> modelTelemetry[i].latencyMs]
      costs == [i \in 1..Len(modelTelemetry) |-> modelTelemetry[i].cost]
  IN IF Len(modelTelemetry) = 0
     THEN [absent |-> TRUE, callCount |-> 0, avgLatencyMs |-> NaN,
           minLatencyMs |-> 0, maxLatencyMs |-> 0, avgCost |-> NaN,
           totalCost |-> 0, successRate |-> NaN]
     ELSE [absent |-> FALSE,
           callCount |-> Len(modelTelemetry),
           avgLatencyMs |-> Rat(SumSeq(latencies), Len(latencies)),
           minLatencyMs |-> MinSeq(latencies),
           maxLatencyMs |-> MaxSeq(latencies),
           avgCost |-> Rat(SumSeq(costs), Len(costs)),
           totalCost |-> SumSeq(costs),
           successRate |-> Rat(Len(SelectSeq(modelTelemetry, Succeeded)),
                               Len(modelTelemetry))]

\* null is modelled as a record with absent = TRUE (its other fields are then unused)
getModelStats(store, model) ==
  LET modelTelemetry == getModelTelemetry(store, model, 100)
      latencies == [i \in 1..Len(modelTelemetry) |-> modelTelemetry[i].latencyMs]
      costs == [i \in 1..Len(modelTelemetry) |-> modelTelemetry[i].cost]
  IN IF Len(modelTelemetry) = 0
     THEN [absent |-> TRUE, callCount |-> 0, avgLatencyMs |-> NaN,
           minLatencyMs |-> 0, maxLatencyMs |-> 0, avgCost |-> NaN,
           totalCost |-> 0, successRate |-> NaN]
     ELSE [absent |-> FALSE,
           callCount |-> Len(modelTelemetry),
           avgLatencyMs |-> Rat(SumSeq(latencies), Len(latencies)),
           minLatencyMs |-> MinSeq(latencies),
           maxLatencyMs |-> MaxSeq(latencies),
           avgCost |-> Rat(SumSeq(costs), Len(costs)),
           totalCost |-> SumSeq(costs),
           successRate |-> Rat(Len(SelectSeq(modelTelemetry, Succeeded)),
                               Len(modelTelemetry))]

\* variant: the reverse() is missing
getAllTelemetryOldestFirst(store, limit) == SliceLast(store, limit)

getAllTelemetry(store, limit) == Reverse(SliceLast(store, limit))

\* Arrays with identity.  An array value in a method chain: its elements (arr),
\* whether it is the telemetryStore array itself (isStore), and the elements of
\* telemetryStore at that point of the chain (store).
FromStore(store) == [arr |-> store, store |-> store, isStore |-> TRUE]

\* variant: a slice or filter that keeps every element returns the array itself
NewArrayUnlessWhole(c, arr) ==
  [arr |-> arr, store |-> c.store, isStore |-> c.isStore /\ arr = c.arr]

\* filter, slice and map return a new array
NewArray(c, arr) == [arr |-> arr, store |-> c.store, isStore |-> FALSE]

\* reverse() reverses its receiver in place and returns it
ReverseInPlace(c) ==
  [arr |-> Reverse(c.arr),
   store |-> IF c.isStore THEN Reverse(c.arr) ELSE c.store,
   isStore |-> c.isStore]

\* a getModelTelemetry call: the array returned (arr) and telemetryStore after it
getModelTelemetryCall(store, model, limit) ==
  LET ofModel(t) == t.model = model
      filtered == NewArray(FromStore(store), SelectSeq(store, ofModel))
      sliced == NewArray(filtered, SliceLast(filtered.arr, limit))
  IN ReverseInPlace(sliced)

\* a getAllTelemetry call
getAllTelemetryCall(store, limit) ==
  ReverseInPlace(NewArray(FromStore(store), SliceLast(store, limit)))

\* telemetryStore after getModelStats(model): its only access is getModelTelemetry
StoreAfterStats(store, model) == getModelTelemetryCall(store, model, 100).store

\* telemetryStore after getCurrentLatency was called for the first k registry models
RECURSIVE StoreAfterLatencies(_, _)
StoreAfterLatencies(store, k) ==
  IF k = 0 THEN store
  ELSE StoreAfterStats(StoreAfterLatencies(store, k - 1), MODEL_REGISTRY[k].fullName)

\* first occurrences, in order (insertion order of a Map's keys)
Keys(s) ==
  LET isFirst(i) == \A j \in 1..(i - 1) : s[j] # s[i]
      firsts == {i \in 1..Len(s) : isFirst(i)}
      \* the k-th smallest position of a first occurrence
      nth(k) == CHOOSE i \in firsts : Cardinality({j \in firsts : j < i}) = k - 1
  IN [k \in 1..Cardinality(firsts) |-> s[nth(k)]]

\* one element of getRoutingStats().modelStats
RoutingModelStat(allTelemetry, model) ==
  LET ofModel(t) == t.model = model
      entries == SelectSeq(allTelemetry, ofModel)
      latencies == [i \in 1..Len(entries) |-> entries[i].latencyMs]
      costs == [i \in 1..Len(entries) |-> entries[i].cost]
  IN [model |-> model,
      callCount |-> Len(entries),
      avgLatencyMs |-> Rat(SumSeq(latencies), Len(latencies)),
      totalCost |-> SumSeq(costs),
      successRate |-> Rat(Len(SelectSeq(entries, Succeeded)), Len(entries))]

\* one element of getRoutingStats().taskStats
RoutingTaskStat(allTelemetry, task) ==
  LET ofTask(t) == t.task = task
      entries == SelectSeq(allTelemetry, ofTask)
      models == {entries[i].model : i \in 1..Len(entries)}
  IN [task |-> task,
      callCount |-> Len(entries),
      modelDistribution |->
        [m \in models |-> Cardinality({i \in 1..Len(entries) : entries[i].model = m})]]

getRoutingStats(store) ==
  LET allTelemetry == getAllTelemetry(store, 100)
      models == Keys([i \in 1..Len(allTelemetry) |-> allTelemetry[i].model])
      tasks == Keys([i \in 1..Len(allTelemetry) |-> allTelemetry[i].task])
  IN [totalCalls |-> Len(allTelemetry),
      modelStats |-> [i \in 1..Len(models) |-> RoutingModelStat(allTelemetry, models[i])],
      taskStats |-> [i \in 1..Len(tasks) |-> RoutingTaskStat(allTelemetry, tasks[i])],
      recentCalls |-> SubSeq(allTelemetry, 1,
                             IF Len(allTelemetry) < 20 THEN Len(allTelemetry) ELSE 20)]

----------------------------------------------------------------------------
(* Scorer / selector *)

\* cost in dollars: (inputTokens / 1000) * input rate + (outputTokens / 1000) * output rate
estimateCost(model, inputTokens, outputTokens) ==
  NumAdd(Rat(inputTokens * model.baseCostPer1kTokens, 100000),
         Rat(outputTokens * model.baseCostPer1kOutputTokens, 100000))

\* variant: five entries are enough for the telemetry mean
getCurrentLatencyFromFive(store, model) ==
  LET stats == getModelStats(store, model.fullName)
  IN IF ~stats.absent /\ stats.callCount >= 5
     THEN stats.avgLatencyMs
     ELSE Rat(model.avgLatencyMs, 1)

getCurrentLatency(store, model) ==
  LET stats == getModelStats(store, model.fullName)
  IN IF ~stats.absent /\ stats.callCount > 5
     THEN stats.avgLatencyMs
     ELSE Rat(model.avgLatencyMs, 1)

\* latency / maxLatencyMs in doubles, for latency >= 0 and maxLatencyMs >= 0:
\* x / 0 is +Infinity for x > 0 and NaN for x = 0
LatencyScore(latency, maxLatencyMs) ==
  IF maxLatencyMs = 0
  THEN IF latency.n = 0 THEN NaN ELSE Rat(0, 1)   \* Math.max(0, 1 - Infinity) = 0
  ELSE NumMax0(NumAdd(Rat(1, 1), NumMul(Rat(-1, maxLatencyMs), latency)))

\* 1 / (1 + cost * 100), for cost > -0.01
CostScore(cost) == Rat(cost.d, cost.d + 100 * cost.n)

Weights(priority) ==
  IF priority = "cost" THEN [capability |-> 3, latency |-> 2, cost |-> 5]
  ELSE IF priority = "quality" THEN [capability |-> 6, latency |-> 2, cost |-> 2]
  ELSE [capability |-> 4, latency |-> 3, cost |-> 3]

scoreModel(store, model, config, estimatedInputTokens, estimatedOutputTokens) ==
  LET capability == model.taskCapabilities[config.task]
      latency == getCurrentLatency(store, model)
      cost == estimateCost(model, estimatedInputTokens, estimatedOutputTokens)
      capabilityScore == Rat(capability, 100)
      latencyScore == LatencyScore(latency, config.maxLatencyMs)
      costScore == CostScore(cost)
      weights == Weights(config.priority)
  IN NumAdd(NumAdd(NumMul(capabilityScore, Rat(weights.capability, 10)),
                   NumMul(latencyScore, Rat(weights.latency, 10))),
            NumMul(costScore, Rat(weights.cost, 10)))

\* viableModels.map(model => ({ model, score: scoreModel(...) }))
RECURSIVE ScoreAll(_, _, _, _, _)
ScoreAll(store, models, config, estimatedInputTokens, estimatedOutputTokens) ==
  IF models = <<>> THEN <<>>
  ELSE <<[model |-> models[1],
          score |-> scoreModel(store, models[1], config, estimatedInputTokens,
                               estimatedOutputTokens)]>>
       \o ScoreAll(store, Tail(models), config, estimatedInputTokens,
                   estimatedOutputTokens)

\* variant: equal scores are swapped as well (the sort is not stable)
SortsBeforeOrTie(b, a) == NumLeq(a.score, b.score)

\* variant: among equal scores the model returned by the previous call goes last
SortsBeforeRotating(b, a) ==
  \/ NumLess(a.score, b.score)
  \/ a.score = b.score /\ lastCall.result.model = a.model.fullName

\* the comparator (a, b) => b.score - a.score is positive: b sorts before a
\* (a NaN difference counts as 0)
SortsBefore(b, a) == NumLess(a.score, b.score)

\* Array.prototype.sort is stable: x goes in front of the first element it sorts before
RECURSIVE InsertSorted(_, _)
InsertSorted(sorted, x) ==
  IF sorted = <<>> THEN <<x>>
  ELSE IF SortsBefore(x, sorted[1]) THEN <<x>> \o sorted
       ELSE <<sorted[1]>> \o InsertSorted(Tail(sorted), x)

RECURSIVE SortByScore(_)
SortByScore(s) ==
  IF s = <<>> THEN <<>>
  ELSE InsertSorted(SortByScore(SubSeq(s, 1, Len(s) - 1)), s[Len(s)])

\* variant: <= instead of <
FasterOrEqual(store, curr, prev) ==
  NumLeq(getCurrentLatency(store, curr), getCurrentLatency(store, prev))

\* curr replaces prev when its latency is lower
Faster(store, curr, prev) ==
  NumLess(getCurrentLatency(store, curr), getCurrentLatency(store, prev))

\* MODEL_REGISTRY.reduce((prev, curr) => latency(curr) < latency(prev) ? curr : prev)
RECURSIVE FastestModel(_, _)
FastestModel(store, k) ==
  IF k = 1 THEN MODEL_REGISTRY[1]
  ELSE LET prev == FastestModel(store, k - 1)
           curr == MODEL_REGISTRY[k]
       IN IF Faster(store, curr, prev) THEN curr ELSE prev

ViableModels(store, config) ==
  LET meets(model) ==
        NumLeq(getCurrentLatency(store, model), Rat(config.maxLatencyMs, 1))
  IN SelectSeq(MODEL_REGISTRY, meets)

\* what selectModel(config) does: throws, or returns a fullName (warned: console.warn
\* ran; viable: the fullNames of its local viableModels)
selectModel(store, config) ==
  IF ~RouterConfigSchema(config)
  THEN [threw |-> TRUE, model |-> "", warned |-> FALSE, viable |-> <<>>]
  ELSE
    LET estimatedInputTokens ==
          IF config.estimatedTokens = Undefined \/ config.estimatedTokens.value = 0
          THEN 1000 ELSE config.estimatedTokens.value
        estimatedOutputTokens == estimatedInputTokens \div 2
        viableModels == ViableModels(store, config)
        scoredModels ==
          ScoreAll(store, viableModels, config, estimatedInputTokens,
                   estimatedOutputTokens)
    IN IF Len(viableModels) = 0
       THEN [threw |-> FALSE,
             model |-> FastestModel(store, Len(MODEL_REGISTRY)).fullName,
             warned |-> TRUE,
             viable |-> <<>>]
       ELSE [threw |-> FALSE,
             model |-> SortByScore(scoredModels)[1].model.fullName,
             warned |-> FALSE,
             viable |-> [i \in 1..Len(viableModels) |-> viableModels[i].fullName]]

----------------------------------------------------------------------------
(* Router and telemetry operations *)

NoConfig ==
  [task |-> "", maxLatencyMs |-> 0, priority |-> "", estimatedTokens |-> Undefined]

NoResult == [threw |-> FALSE, model |-> "", warned |-> FALSE, viable |-> <<>>]

NoCall == [op |-> "none", config |-> NoConfig, result |-> NoResult]

\* what callers record, without the timestamp: a fast call of openai/gpt-5-mini and
\* a call of openai/gpt-5.1-thinking that failed at once (cost in 1/100000 $)
EntryKinds == {
  [model |-> "openai/gpt-5-mini", task |-> "reasoning", latencyMs |-> 400,
   inputTokens |-> 60, outputTokens |-> 300, cost |-> 18900, success |-> TRUE],
  [model |-> "openai/gpt-5.1-thinking", task |-> "reasoning", latencyMs |-> 0,
   inputTokens |-> 0, outputTokens |-> 0, cost |-> 0, success |-> FALSE] }

\* the CallTelemetry a caller builds at time now (timestamp: Date.now())
Entry(kind, now) ==
  [model |-> kind.model, task |-> kind.task, latencyMs |-> kind.latencyMs,
   inputTokens |-> kind.inputTokens, outputTokens |-> kind.outputTokens,
   cost |-> kind.cost, timestamp |-> now, success |-> kind.success]

\* the k-th call of a caller that alternates between the two models, as
\* compareFastVsReasoning does: first openai/gpt-5.1-thinking, then openai/gpt-5-mini
AlternatingEntry(k) ==
  Entry(CHOOSE kind \in EntryKinds :
          (kind.model = "openai/gpt-5.1-thinking") <=> (k % 2 = 1),
        k)

\* the store after calls number from .. to of that caller, made one after the other
\* (the range is halved, and the first half computed before the second is
\* started, to keep the evaluation shallow)
RECURSIVE RecordRange(_, _, _)
RecordRange(store, from, to) ==
  IF from > to THEN store
  ELSE IF from = to THEN recordTelemetry(store, AlternatingEntry(from))
  ELSE LET mid == (from + to) \div 2
           firstHalf == RecordRange(store, from, mid)
       IN IF Len(firstHalf) >= 0 THEN RecordRange(firstHalf, mid + 1, to) ELSE <<>>

\* the store after the first n calls of that caller
StoreAfter(n) == RecordRange(<<>>, 1, n)

\* configs that pass validation
ValidConfigs ==
  [task : {"classification", "reasoning"},
   maxLatencyMs : {0, 1500, 2000},
   priority : Priorities,
   estimatedTokens : {Undefined, Number(2000)}]

\* configs a caller can pass past the type checker (casts, JSON input) that do not
InvalidConfigs == {
  [task |-> "translation", maxLatencyMs |-> 2000, priority |-> "cost",
   estimatedTokens |-> Undefined],
  [task |-> "classification", maxLatencyMs |-> -1, priority |-> "cost",
   estimatedTokens |-> Undefined],
  [task |-> "translation", maxLatencyMs |-> -1, priority |-> "quality",
   estimatedTokens |-> Number(2000)],
  [task |-> "reasoning", maxLatencyMs |-> 2000, priority |-> "speed",
   estimatedTokens |-> Undefined],
  [task |-> "classification", maxLatencyMs |-> 2000, priority |-> "cost",
   estimatedTokens |-> AString] }

\* the store and the call history after recordTelemetry(t)
DoRecord(t) ==
  /\ telemetryStore' = recordTelemetry(telemetryStore, t)
  /\ history' = Append(history, t)
  /\ lastCall' = [op |-> "recordTelemetry", config |-> NoConfig, result |-> NoResult]

\* a caller records the outcome of one generation call
RecordTelemetry ==
  /\ Len(history) < MaxRecords
  /\ \E kind \in EntryKinds : DoRecord(Entry(kind, Len(history) + 1))
  /\ UNCHANGED exVars
  /\ UNCHANGED fnVars

\* the same, in the telemetry runs
BurstTelemetry ==
  /\ Len(history) < PreRecorded + MaxBurst
  /\ \E kind \in EntryKinds : DoRecord(Entry(kind, Len(history) + 1))
  /\ UNCHANGED exVars
  /\ UNCHANGED fnVars

SelectModel ==
  /\ \E config \in ValidConfigs \cup InvalidConfigs :
       lastCall' = [op |-> "selectModel", config |-> config,
                    result |-> selectModel(telemetryStore, config)]
  /\ UNCHANGED <<telemetryStore, history>>
  /\ UNCHANGED exVars
  /\ UNCHANGED fnVars

\* the configs of the replay runs: an exact tie of two viable models, runDemo's
\* first config, one that no model meets, and an invalid one
ReplayConfigs == {
  [task |-> "classification", maxLatencyMs |-> 1500, priority |-> "balanced",
   estimatedTokens |-> Undefined],
  [task |-> "classification", maxLatencyMs |-> 2000, priority |-> "cost",
   estimatedTokens |-> Undefined],
  [task |-> "reasoning", maxLatencyMs |-> 0, priority |-> "quality",
   estimatedTokens |-> Number(2000)],
  [task |-> "classification", maxLatencyMs |-> -1, priority |-> "cost",
   estimatedTokens |-> Undefined] }

\* router calls completed since the remembered one, counted up to 2
Later(m) == IF m.set /\ m.since < 2 THEN [m EXCEPT !.since = m.since + 1] ELSE m

\* recordTelemetry in the replay runs
ReplayRecord ==
  /\ Len(history) < MaxReplayRecords
  /\ \E kind \in EntryKinds : DoRecord(Entry(kind, Len(history) + 1))
  /\ memo' = Later(memo)
  /\ UNCHANGED <<chunking, reduction, comparison>>
  /\ UNCHANGED exVars

\* selectModel in the replay runs
ReplaySelect ==
  /\ \E config \in ReplayConfigs :
       lastCall' = [op |-> "selectModel", config |-> config,
                    result |-> selectModel(telemetryStore, config)]
  /\ memo' = Later(memo)
  /\ UNCHANGED <<telemetryStore, history, chunking, reduction, comparison>>
  /\ UNCHANGED exVars

\* an observer notes the selectModel call just completed and the log it ran against
Remember ==
  /\ lastCall.op = "selectModel"
  /\ memo' = [set |-> TRUE, config |-> lastCall.config, result |-> lastCall.result,
              store |-> telemetryStore, since |-> 0]
  /\ UNCHANGED telVars
  /\ UNCHANGED <<chunking, reduction, comparison>>
  /\ UNCHANGED exVars

\* what callers record in the query runs: the two kinds above and a call of
\* openai/gpt-5-mini that failed after 900 ms (recorded with cost 0)
QueryEntryKinds == EntryKinds \cup {
  [model |-> "openai/gpt-5-mini", task |-> "reasoning", latencyMs |-> 900,
   inputTokens |-> 60, outputTokens |-> 0, cost |-> 0, success |-> FALSE] }

\* model ids asked about: two with entries, one without
QueryModels == {"openai/gpt-5-mini", "openai/gpt-5.1-thinking", "openai/gpt-5"}

\* limits asked for (100 is the default)
QueryLimits == {0, 1, 2, 100}

\* entries recorded since the query run started
Burst ==
  IF Len(history) >= QueryPreRecorded THEN Len(history) - QueryPreRecorded
  ELSE Len(history)

QueryRecord ==
  /\ Burst < MaxQueryBurst
  /\ \E kind \in QueryEntryKinds : DoRecord(Entry(kind, Len(history) + 1))
  /\ UNCHANGED exVars
  /\ UNCHANGED fnVars

GetModelTelemetry ==
  /\ \E model \in QueryModels, limit \in QueryLimits :
       LET call == getModelTelemetryCall(telemetryStore, model, limit)
       IN /\ telemetryStore' = call.store
          /\ lastCall' = [op |-> "getModelTelemetry", model |-> model,
                          limit |-> limit, result |-> call.arr]
  /\ UNCHANGED history
  /\ UNCHANGED exVars
  /\ UNCHANGED fnVars

GetModelStats ==
  /\ \E model \in QueryModels :
       /\ telemetryStore' = StoreAfterStats(telemetryStore, model)
       /\ lastCall' = [op |-> "getModelStats", model |-> model,
                       result |-> getModelStats(telemetryStore, model)]
  /\ UNCHANGED history
  /\ UNCHANGED exVars
  /\ UNCHANGED fnVars

GetAllTelemetry ==
  /\ \E limit \in QueryLimits :
       LET call == getAllTelemetryCall(telemetryStore, limit)
       IN /\ telemetryStore' = call.store
          /\ lastCall' = [op |-> "getAllTelemetry", limit |-> limit,
                          result |-> call.arr]
  /\ UNCHANGED history
  /\ UNCHANGED exVars
  /\ UNCHANGED fnVars

\* getRoutingStats reads the log through getAllTelemetry(100) only
GetRoutingStats ==
  /\ telemetryStore' = getAllTelemetryCall(telemetryStore, 100).store
  /\ lastCall' = [op |-> "getRoutingStats", result |-> getRoutingStats(telemetryStore)]
  /\ UNCHANGED history
  /\ UNCHANGED exVars
  /\ UNCHANGED fnVars

\* the configs of the query runs: runDemo's first config and an invalid one
QueryConfigs == {
  [task |-> "classification", maxLatencyMs |-> 2000, priority |-> "cost",
   estimatedTokens |-> Undefined],
  [task |-> "classification", maxLatencyMs |-> -1, priority |-> "cost",
   estimatedTokens |-> Undefined] }

\* selectModel reads the log through getCurrentLatency -> getModelStats, for every
\* registry model (later calls repeat these), unless validation throws first
QuerySelect ==
  /\ \E config \in QueryConfigs :
       /\ telemetryStore' =
            IF RouterConfigSchema(config)
            THEN StoreAfterLatencies(telemetryStore, Len(MODEL_REGISTRY))
            ELSE telemetryStore
       /\ lastCall' = [op |-> "selectModel", config |-> config,
                       result |-> selectModel(telemetryStore, config)]
  /\ UNCHANGED history
  /\ UNCHANGED exVars
  /\ UNCHANGED fnVars

\* the k-th call of a caller who called openai/gpt-5-mini once, then
\* openai/gpt-5.1-thinking six times (each call failed at once) and
\* openai/gpt-5-mini ever since
LopsidedEntry(k) ==
  Entry(CHOOSE kind \in EntryKinds :
          (kind.model = "openai/gpt-5.1-thinking") <=> (k \in 2..7),
        k)

\* a caller records the outcome of one generation call, in the frame runs
FrameRecord ==
  /\ Len(history) < FramePreRecorded + MaxFrameBurst
  /\ \E kind \in EntryKinds : DoRecord(Entry(kind, Len(history) + 1))
  /\ UNCHANGED exVars
  /\ UNCHANGED fnVars

\* the log after FramePreRecorded calls of that caller (fewer than
\* MAX_TELEMETRY_ENTRIES, so nothing was evicted)
TelInitFrame ==
  /\ history = [k \in 1..FramePreRecorded |-> LopsidedEntry(k)]
  /\ telemetryStore = history
  /\ lastCall = [op |-> "recordTelemetry", config |-> NoConfig, result |-> NoResult]

\* what callers record in the routing-statistics runs: the kinds above and a
\* classification call of openai/gpt-4o-mini
RoutingEntryKinds == QueryEntryKinds \cup {
  [model |-> "openai/gpt-4o-mini", task |-> "classification", latencyMs |-> 300,
   inputTokens |-> 40, outputTokens |-> 10, cost |-> 1200, success |-> TRUE] }

RoutingRecord ==
  /\ Burst < MaxRoutingBurst
  /\ \E kind \in RoutingEntryKinds : DoRecord(Entry(kind, Len(history) + 1))
  /\ UNCHANGED exVars
  /\ UNCHANGED fnVars

\* the query runs start with an empty log or after QueryPreRecorded calls
TelInitQueries ==
  /\ \E n \in {0, QueryPreRecorded} :
       /\ telemetryStore = StoreAfter(n)
       /\ history = [k \in 1..n |-> AlternatingEntry(k)]
  /\ lastCall = NoCall

TelInit ==
  /\ telemetryStore = <<>>
  /\ history = <<>>
  /\ lastCall = NoCall

\* the store after PreRecorded calls of the alternating caller
TelInitRecorded ==
  /\ telemetryStore = StoreAfter(PreRecorded)
  /\ history = [k \in 1..PreRecorded |-> AlternatingEntry(k)]
  /\ lastCall = [op |-> "recordTelemetry", config |-> NoConfig, result |-> NoResult]

----------------------------------------------------------------------------
(* Large-document extractor: data *)

MAX_RETRIES == 3

\* no checkpoint file on disk / loadCheckpoint's null
NoFile == [exists |-> FALSE, totalChunks |-> 0, completedChunks |-> <<>>,
           chunkResults |-> <<>>]

\* what the generation call can return for a chunk (already schema-valid)
Extractions == {
  [keyTakeaway |-> "k1", companies |-> <<"Acme">>,
   concepts |-> [business |-> <<"moat">>, technical |-> <<>>],
   quotes |-> <<[quote |-> "q1", speaker |-> "ann"]>>, summary |-> "s1"],
  [keyTakeaway |-> "k2", companies |-> <<"Acme", "Bolt">>,
   concepts |-> [business |-> <<>>, technical |-> <<"api">>],
   quotes |-> <<>>, summary |-> ""] }

\* error.message of an error thrown by the generation call (generateObject or
\* streamText and its text stream)
CallErrors == {"rate limit"}

\* error.message of the errors thrown on a streamed response: no JSON object in the
\* text, JSON.parse failed, ExtractionSchema.parse failed
StreamErrors == {
  "Failed to parse JSON from stream: No JSON found in streamed response",
  "Failed to parse JSON from stream: Unexpected end of JSON input",
  "Failed to parse JSON from stream: Required" }

\* error.message of a failed extraction attempt
Errors == CallErrors \cup StreamErrors

\* the messages an attempt can fail with, by options.useStreaming
AttemptErrors(useStreaming) == IF useStreaming THEN Errors ELSE CallErrors

\* what summarizeFailedChunk can return (the streamed text; when the call fails it
\* returns a text as well, "[Summary generation failed: ...]")
FallbackSummaries == {"fb"}

\* variant: the message is put into keyTakeaway as well
FailedResultTagged(chunkIndex, message) ==
  [chunkIndex |-> chunkIndex,
   result |-> [keyTakeaway |-> message, companies |-> <<>>,
               concepts |-> [business |-> <<>>, technical |-> <<>>],
               quotes |-> <<>>,
               summary |-> "[Extraction failed: " \o message \o "]"],
   success |-> FALSE,
   error |-> <<message>>]

\* processChunk's result once the retries are exhausted
FailedResult(chunkIndex, message) ==
  [chunkIndex |-> chunkIndex,
   result |-> [keyTakeaway |-> "", companies |-> <<>>,
               concepts |-> [business |-> <<>>, technical |-> <<>>],
               quotes |-> <<>>,
               summary |-> "[Extraction failed: " \o message \o "]"],
   success |-> FALSE,
   error |-> <<message>>]

\* processChunk's result for a successful attempt (error is absent)
SucceededResult(chunkIndex, structuredOutput) ==
  [chunkIndex |-> chunkIndex, result |-> structuredOutput, success |-> TRUE,
   error |-> <<>>]

\* variant: every result counts, failed or not
IsSuccessOrFailure(r) == r.success \/ ~r.success

\* (r) => r.success
IsSuccess(r) == r.success

IsFailure(r) == ~r.success

\* chunkResults.filter(r => r.success).map(r => r.chunkIndex)
CompletedIndices(chunkResults) ==
  LET ok == SelectSeq(chunkResults, IsSuccess)
  IN [i \in 1..Len(ok) |-> ok[i].chunkIndex]

\* the Checkpoint object saveCheckpoint serializes (filePath and timestamp left out)
CheckpointOf(prog) ==
  [exists |-> TRUE,
   totalChunks |-> prog.totalChunks,
   completedChunks |-> CompletedIndices(prog.chunkResults),
   chunkResults |-> prog.chunkResults]

\* variant: the checkpoint is never written
saveCheckpointSkip(file, prog, writeOk) == file

\* the file after saveCheckpoint: a failed write is caught and leaves the file as it was
saveCheckpoint(file, prog, writeOk) == IF writeOk THEN CheckpointOf(prog) ELSE file

\* what loadCheckpoint returns: the parsed file, or null if there is none or reading fails
loadCheckpoint(file, readOk) == IF file.exists /\ readOk THEN file ELSE NoFile

\* variant: the file is left where it is
clearCheckpointKeep(file, unlinkOk) == file

\* the file after clearCheckpoint: a failed unlink is caught and leaves the file
clearCheckpoint(file, unlinkOk) == IF file.exists /\ unlinkOk THEN NoFile ELSE file

SeqToSet(s) == {s[i] : i \in 1..Len(s)}

\* variant: the completed chunks are not filtered out
ChunksToProcessAll(n, checkpoint) == [i \in 1..n |-> i - 1]

\* variant: the pending chunks, last one first
ChunksToProcessDescending(n, checkpoint) ==
  LET all == [i \in 1..n |-> n - i]
      pending(idx) == idx \notin SeqToSet(checkpoint.completedChunks)
  IN IF checkpoint.exists THEN SelectSeq(all, pending) ELSE all

\* chunks.map((_, idx) => idx), filtered by !checkpoint.completedChunks.includes(idx)
\* when a checkpoint was loaded
ChunksToProcess(n, checkpoint) ==
  LET all == [i \in 1..n |-> i - 1]
      pending(idx) == idx \notin SeqToSet(checkpoint.completedChunks)
  IN IF checkpoint.exists THEN SelectSeq(all, pending) ELSE all

\* variant: retries <= MAX_RETRIES
CanRetryInclusive(r) == r <= MAX_RETRIES

\* processChunk's catch: retry while retries < MAX_RETRIES
CanRetry(r) == r < MAX_RETRIES

\* the setTimeout delay before the retry that follows attempt number r + 1
BackoffDelay(r) == 1000 * (r + 1)

\* variant: the summary is assigned to a copy, the pushed result keeps its own
ApplyFallbackToCopy(chunkResults, fallbackSummary) == chunkResults

\* variant: the summarized chunk counts as extracted
ApplyFallbackRecovered(chunkResults, fallbackSummary) ==
  [chunkResults EXCEPT ![Len(chunkResults)].result.summary = fallbackSummary,
                       ![Len(chunkResults)].success = TRUE]

\* chunkResult.result.summary = fallbackSummary, chunkResult being the result pushed last
ApplyFallback(chunkResults, fallbackSummary) ==
  [chunkResults EXCEPT ![Len(chunkResults)].result.summary = fallbackSummary]

\* the initial ProgressTracker (startTime left out)
InitialProgress(n, checkpoint) ==
  IF checkpoint.exists
  THEN [totalChunks |-> n,
        completedChunks |-> Len(checkpoint.completedChunks),
        failedChunks |-> Len(SelectSeq(checkpoint.chunkResults, IsFailure)),
        chunkResults |-> checkpoint.chunkResults]
  ELSE [totalChunks |-> n, completedChunks |-> 0, failedChunks |-> 0,
        chunkResults |-> <<>>]

----------------------------------------------------------------------------
(* Large-document extractor: chunking.  A text is a sequence of characters. *)

\* the characters documents are made of: a letter, a blank, a sentence terminator
Chars == {"a", " ", "."}

IsTerminator(c) == c \in {".", "!", "?"}

\* \s
IsSpace(c) == c = " "

\* Math.ceil(text.length / 4)
estimateTokens(text) == (Len(text) + 3) \div 4

\* last position of the run of terminators (term = TRUE) or of other characters
\* (term = FALSE) that starts at i; i - 1 if the run is empty
RunEnd(text, i, term) ==
  CHOOSE j \in (i - 1)..Len(text) :
    /\ \A k \in i..j : IsTerminator(text[k]) = term
    /\ j = Len(text) \/ IsTerminator(text[j + 1]) # term

\* the matches of /[^.!?]+[.!?]+/g from position i on
RECURSIVE MatchFrom(_, _)
MatchFrom(text, i) ==
  IF i > Len(text) THEN <<>>
  ELSE IF IsTerminator(text[i]) THEN MatchFrom(text, i + 1)
  ELSE LET j == RunEnd(text, i, FALSE)
       IN IF j = Len(text) THEN <<>>
          ELSE LET k == RunEnd(text, j + 1, TRUE)
               IN <<SubSeq(text, i, k)>> \o MatchFrom(text, k + 1)

\* text.match(/[^.!?]+[.!?]+/g) || [text]
MatchSentences(text) ==
  LET matches == MatchFrom(text, 1) IN IF matches = <<>> THEN <<text>> ELSE matches

\* number of leading whitespace characters
LeadingSpaces(str) ==
  CHOOSE n \in 0..Len(str) :
    /\ \A k \in 1..n : IsSpace(str[k])
    /\ n = Len(str) \/ ~IsSpace(str[n + 1])

\* String.prototype.trim
Trim(str) ==
  LET from == LeadingSpaces(str) + 1
      to == CHOOSE n \in 0..Len(str) :
              /\ \A k \in (n + 1)..Len(str) : IsSpace(str[k])
              /\ n = 0 \/ ~IsSpace(str[n])
  IN IF from > to THEN <<>> ELSE SubSeq(str, from, to)

\* str.split(/\s+/): the pieces between whitespace runs (empty pieces included)
RECURSIVE SplitSpaces(_)
SplitSpaces(str) ==
  IF \A k \in 1..Len(str) : ~IsSpace(str[k]) THEN <<str>>
  ELSE LET p == CHOOSE k \in 1..Len(str) :
                  IsSpace(str[k]) /\ \A m \in 1..(k - 1) : ~IsSpace(str[m])
           q == CHOOSE k \in p..Len(str) :
                  /\ \A m \in p..k : IsSpace(str[m])
                  /\ k = Len(str) \/ ~IsSpace(str[k + 1])
       IN <<SubSeq(str, 1, p - 1)>> \o SplitSpaces(SubSeq(str, q + 1, Len(str)))

\* words.join(' ')
RECURSIVE JoinWords(_)
JoinWords(words) ==
  IF words = <<>> THEN <<>>
  ELSE IF Len(words) = 1 THEN words[1]
  ELSE words[1] \o <<" ">> \o JoinWords(Tail(words))

\* the state of chunkText's for-loop before any sentence: chunks, currentChunk and
\* currentTokens, and for the record how many leading characters of currentChunk
\* (lead) and of each chunk pushed (leads) are overlap copied from the chunk before
LoopStart == [chunks |-> <<>>, leads |-> <<>>, currentChunk |-> <<>>,
              currentTokens |-> 0, lead |-> 0]

\* what is left of an overlap of lead characters when str is trimmed
TrimmedLead(str, lead) ==
  LET left == IF lead > LeadingSpaces(str) THEN lead - LeadingSpaces(str) ELSE 0
  IN IF left > Len(Trim(str)) THEN Len(Trim(str)) ELSE left

\* chunks.push(currentChunk.trim())
PushChunk(st) ==
  [st EXCEPT !.chunks = Append(st.chunks, Trim(st.currentChunk)),
             !.leads = Append(st.leads, TrimmedLead(st.currentChunk, st.lead))]

\* one iteration of the for-loop
LoopStep(st, sentence, chunkSize, overlap) ==
  LET sentenceTokens == estimateTokens(sentence)
  IN IF st.currentTokens + sentenceTokens > chunkSize /\ st.currentChunk # <<>>
     THEN LET words == SplitSpaces(st.currentChunk)
              overlapWords == SliceLast(words, overlap \div 4)
              prefix == JoinWords(overlapWords) \o <<" ">>
          IN [PushChunk(st) EXCEPT !.currentChunk = prefix \o sentence,
                                   !.currentTokens = estimateTokens(prefix \o sentence),
                                   !.lead = Len(prefix)]
     ELSE [st EXCEPT !.currentChunk = st.currentChunk \o sentence,
                     !.currentTokens = st.currentTokens + sentenceTokens]

\* the loop state after the first i sentences
RECURSIVE LoopAfter(_, _, _, _)
LoopAfter(sentences, i, chunkSize, overlap) ==
  IF i = 0 THEN LoopStart
  ELSE LoopStep(LoopAfter(sentences, i - 1, chunkSize, overlap), sentences[i],
                chunkSize, overlap)

\* chunkText(text, chunkSize, overlap): the chunks returned, and the leads
chunkText(text, chunkSize, overlap) ==
  IF estimateTokens(text) <= chunkSize
  THEN [chunks |-> <<text>>, leads |-> <<0>>]
  ELSE LET sentences == MatchSentences(text)
           st == LoopAfter(sentences, Len(sentences), chunkSize, overlap)
           done == IF Trim(st.currentChunk) # <<>> THEN PushChunk(st) ELSE st
       IN [chunks |-> done.chunks, leads |-> done.leads]

\* the documents, chunk sizes (in tokens) and overlaps (in tokens) explored
Docs == UNION {[1..n -> Chars] : n \in 0..MaxDocLen}

ChunkSizes == {1, 2}

Overlaps == {0, 4}

----------------------------------------------------------------------------
(* Large-document extractor: reduction *)

RECURSIVE Flatten(_)
Flatten(ss) == IF ss = <<>> THEN <<>> ELSE ss[1] \o Flatten(Tail(ss))

\* Array.from(new Set(items)): first occurrences, in insertion order
Dedupe(s) ==
  LET isFirst(i) == \A j \in 1..(i - 1) : s[j] # s[i]
      firsts == {i \in 1..Len(s) : isFirst(i)}
      \* the k-th smallest position of a first occurrence
      nth(k) == CHOOSE i \in firsts : Cardinality({j \in firsts : j < i}) = k - 1
  IN [k \in 1..Cardinality(firsts) |-> s[nth(k)]]

\* Array.prototype.join(' ')
RECURSIVE JoinSpace(_)
JoinSpace(strs) ==
  IF strs = <<>> THEN ""
  ELSE IF Len(strs) = 1 THEN strs[1]
  ELSE strs[1] \o " " \o JoinSpace(Tail(strs))

\* String.prototype.substring(0, n)
Substring0(str, n) == IF Len(str) <= n THEN str ELSE SubSeq(str, 1, n)

NoTakeaway == "Unable to extract key takeaway from document."

reduceResults(chunkResults) ==
  LET successfulResults == SelectSeq(chunkResults, IsSuccess)
      m == Len(successfulResults)
      nonEmpty(str) == str # ""
      summaries == SelectSeq([i \in 1..m |-> successfulResults[i].result.summary],
                             nonEmpty)
  IN [keyTakeaway |->
        IF Len(summaries) > 0
        THEN Substring0(JoinSpace(SubSeq(summaries, 1,
                                         IF Len(summaries) < 3 THEN Len(summaries) ELSE 3)),
                        250)
        ELSE NoTakeaway,
      companies |->
        Dedupe(Flatten([i \in 1..m |-> successfulResults[i].result.companies])),
      concepts |->
        [business |->
           Dedupe(Flatten([i \in 1..m |-> successfulResults[i].result.concepts.business])),
         technical |->
           Dedupe(Flatten([i \in 1..m |-> successfulResults[i].result.concepts.technical]))],
      quotes |-> Flatten([i \in 1..m |-> successfulResults[i].result.quotes]),
      summary |-> JoinSpace(summaries)]

\* a summary of 100 characters
LongSummary ==
  "0123456789012345678901234567890123456789012345678901234567890123456789012345678901234567890123456789"

\* the chunk results reduceResults is applied to, without their chunkIndex: the
\* successful results of Extractions; a successful one with a long summary, a company
\* named twice and a quote another chunk has as well; the failed result processChunk
\* returns, carrying its fallback summary; a failed one with content, as a checkpoint
\* file can hold it
ReduceKinds ==
  { [result |-> e, success |-> TRUE, error |-> <<>>] : e \in Extractions }
  \cup
  { [result |-> [keyTakeaway |-> "k3", companies |-> <<"Bolt", "Bolt">>,
                 concepts |-> [business |-> <<"moat">>, technical |-> <<"api", "sdk">>],
                 quotes |-> <<[quote |-> "q1", speaker |-> "ann"]>>,
                 summary |-> LongSummary],
     success |-> TRUE, error |-> <<>>],
    [result |-> [keyTakeaway |-> "", companies |-> <<>>,
                 concepts |-> [business |-> <<>>, technical |-> <<>>],
                 quotes |-> <<>>, summary |-> "fb"],
     success |-> FALSE, error |-> <<"rate limit">>],
    [result |-> [keyTakeaway |-> "k5", companies |-> <<"Zed">>,
                 concepts |-> [business |-> <<"churn">>, technical |-> <<"orm">>],
                 quotes |-> <<[quote |-> "q5", speaker |-> "zoe"]>>,
                 summary |-> "s5"],
     success |-> FALSE, error |-> <<"timeout">>] }

\* the list of chunk results made of the given kinds, chunkIndex in list order
ChunkResultsOf(kinds) ==
  [i \in 1..Len(kinds) |->
     [chunkIndex |-> i - 1, result |-> kinds[i].result, success |-> kinds[i].success,
      error |-> kinds[i].error]]

ReduceInputs ==
  UNION { {ChunkResultsOf(kinds) : kinds \in [1..n -> ReduceKinds]} : n \in 0..MaxResults }

\* variant: the list is filtered in place
InputAfterReduceFiltered(chunkResults) == SelectSeq(chunkResults, IsSuccess)

\* the list passed to reduceResults once the call has returned: filter, map, flatMap
\* and slice build new arrays, forEach only reads, nothing is assigned to an element
InputAfterReduce(chunkResults) == chunkResults

----------------------------------------------------------------------------
(* Large-document extractor: the run *)

NoProgress == [totalChunks |-> 0, completedChunks |-> 0, failedChunks |-> 0,
               chunkResults |-> <<>>]

NoReturn == [returned |-> FALSE, value |-> reduceResults(<<>>)]

\* What is observed of a run:
\*   id            how many runs were started so far
\*   resume        options.resume
\*   useStreaming  options.useStreaming
\*   found         the checkpoint file loadCheckpoint was called on (NoFile for none)
\*   loaded        the checkpoint loadCheckpoint returned (NoFile for null)
\*   readFailed    loadCheckpoint found the file and could not read it
\*   invoked       the chunk indices processChunk was called for (retries = 0), in order
\*   delays        the setTimeout delays slept so far in the current processChunk call
\*   fallbacks     the chunk indices summarizeFailedChunk was called for, in order
\*   saveFailed    some saveCheckpoint of this run could not write
\*   crashed, doneAtCrash   the run was killed; the chunk indices that had a successful
\*                 result in the progress tracker at that moment
\*   prevCrashed, prevDone, prevSaveFailed   the same of the run before
\*   unlinkFailed  clearCheckpoint found the file and could not delete it
\*   thrown        the message of the error extractLargeDocument threw ("" for none)
\*   exitCode      the status main exited with (0 when it did not call process.exit)
\*   final         the value extractLargeDocument returned
NoRun ==
  [id |-> 0, resume |-> FALSE, useStreaming |-> FALSE, found |-> NoFile,
   loaded |-> NoFile, readFailed |-> FALSE,
   invoked |-> <<>>,
   delays |-> <<>>, fallbacks |-> <<>>, saveFailed |-> FALSE, crashed |-> FALSE,
   doneAtCrash |-> {}, prevCrashed |-> FALSE, prevDone |-> {},
   prevSaveFailed |-> FALSE, unlinkFailed |-> FALSE, thrown |-> "", exitCode |-> 0,
   final |-> NoReturn]

Running == {"loop", "extracting", "backoff", "summarizing"}

\* new Error(`File not found: ${filePath}`), without the path
FileNotFound == "File not found"

\* variant: main does not call process.exit
MainExitCodeZero(threw) == 0

\* main: process.exit(1) in its catch block, no exit call otherwise
MainExitCode(threw) == IF threw THEN 1 ELSE 0

ExInit ==
  /\ pc = "idle"
  /\ ckptFile = NoFile
  /\ progress = NoProgress
  /\ chunkCount = 0
  /\ todo = <<>>
  /\ cur = -1
  /\ retries = 0
  /\ lastError = ""
  /\ run = NoRun

\* extractLargeDocument up to the for-loop: load the checkpoint if resuming, chunk the
\* document (n chunks for the chunkSize given), set up progress and chunksToProcess
StartWith(useStreaming, maxRuns) ==
  /\ pc \in {"idle", "done", "failed"}
  /\ run.id < maxRuns
  /\ \E n \in 1..MaxChunks, resume \in BOOLEAN, readOk \in BOOLEAN :
       LET checkpoint == IF resume THEN loadCheckpoint(ckptFile, readOk) ELSE NoFile
       IN /\ chunkCount' = n
          /\ progress' = InitialProgress(n, checkpoint)
          /\ todo' = ChunksToProcess(n, checkpoint)
          /\ run' = [NoRun EXCEPT !.id = run.id + 1, !.resume = resume,
                                  !.useStreaming = useStreaming,
                                  !.found = IF resume THEN ckptFile ELSE NoFile,
                                  !.loaded = checkpoint,
                                  !.readFailed = resume /\ ckptFile.exists /\ ~readOk,
                                  !.prevCrashed = run.crashed,
                                  !.prevDone = run.doneAtCrash,
                                  !.prevSaveFailed = run.saveFailed]
  /\ pc' = "loop"
  /\ cur' = -1
  /\ retries' = 0
  /\ lastError' = ""
  /\ UNCHANGED ckptFile
  /\ UNCHANGED telVars
  /\ UNCHANGED fnVars

\* a run with generateObject (useStreaming is false by default, and in main)
StartRun == StartWith(FALSE, MaxRuns)

\* the one run with streamText and JSON parsing of the streamed text
StartStreamingRun == StartWith(TRUE, 1)

\* the one run of a process that is not killed
StartOnlyRun == StartWith(FALSE, 1)

\* extractLargeDocument on a path where fs.existsSync finds nothing: it throws before
\* anything else is done, and main reports the error and exits
StartMissingFile ==
  /\ pc \in {"idle", "done", "failed"}
  /\ run.id < MaxRuns
  /\ \E resume \in BOOLEAN :
       run' = [NoRun EXCEPT !.id = run.id + 1, !.resume = resume,
                            !.prevCrashed = run.crashed,
                            !.prevDone = run.doneAtCrash,
                            !.prevSaveFailed = run.saveFailed,
                            !.thrown = FileNotFound,
                            !.exitCode = MainExitCode(TRUE)]
  /\ pc' = "failed"
  /\ progress' = NoProgress
  /\ chunkCount' = 0
  /\ todo' = <<>>
  /\ cur' = -1
  /\ retries' = 0
  /\ lastError' = ""
  /\ UNCHANGED ckptFile
  /\ UNCHANGED telVars
  /\ UNCHANGED fnVars

\* the for-loop takes the next chunk index and calls processChunk(..., retries = 0):
\* the first generation call for the chunk is in flight
LoopNext ==
  /\ pc = "loop"
  /\ todo # <<>>
  /\ cur' = Head(todo)
  /\ todo' = Tail(todo)
  /\ retries' = 0
  /\ lastError' = ""
  /\ run' = [run EXCEPT !.invoked = Append(@, Head(todo)), !.delays = <<>>]
  /\ pc' = "extracting"
  /\ UNCHANGED <<ckptFile, progress, chunkCount>>
  /\ UNCHANGED telVars
  /\ UNCHANGED fnVars

\* the generation call returns a valid object: processChunk returns success, the loop
\* pushes the result, counts it and saves the checkpoint
ExtractSucceeds ==
  /\ pc = "extracting"
  /\ \E structuredOutput \in Extractions, writeOk \in BOOLEAN :
       LET chunkResult == SucceededResult(cur, structuredOutput)
           prog == [progress EXCEPT !.chunkResults = Append(@, chunkResult),
                                    !.completedChunks = @ + 1]
       IN /\ progress' = prog
          /\ ckptFile' = saveCheckpoint(ckptFile, prog, writeOk)
          /\ run' = [run EXCEPT !.delays = <<>>, !.saveFailed = @ \/ ~writeOk]
  /\ pc' = "loop"
  /\ retries' = 0
  /\ lastError' = ""
  /\ UNCHANGED <<chunkCount, todo, cur>>
  /\ UNCHANGED telVars
  /\ UNCHANGED fnVars

\* the attempt throws and retries < MAX_RETRIES: sleep 1000 * (retries + 1) ms
ExtractFailsRetry ==
  /\ pc = "extracting"
  /\ CanRetry(retries)
  /\ \E message \in AttemptErrors(run.useStreaming) : lastError' = message
  /\ run' = [run EXCEPT !.delays = Append(@, BackoffDelay(retries))]
  /\ pc' = "backoff"
  /\ UNCHANGED <<ckptFile, progress, chunkCount, todo, cur, retries>>
  /\ UNCHANGED telVars
  /\ UNCHANGED fnVars

\* the sleep is over: processChunk calls itself with retries + 1
BackoffElapsed ==
  /\ pc = "backoff"
  /\ retries' = retries + 1
  /\ pc' = "extracting"
  /\ UNCHANGED <<ckptFile, progress, chunkCount, todo, cur, lastError, run>>
  /\ UNCHANGED telVars
  /\ UNCHANGED fnVars

\* variant: the run is given up when a chunk has failed for good
AfterFailedChunkGiveUp == "idle"

\* where the loop goes on once processChunk has returned a failed result
AfterFailedChunk == "summarizing"

\* the attempt throws and the retries are used up: processChunk returns the failed
\* result, the loop pushes it, counts it and calls summarizeFailedChunk
ExtractFailsExhausted ==
  /\ pc = "extracting"
  /\ ~CanRetry(retries)
  /\ \E message \in AttemptErrors(run.useStreaming) :
       /\ lastError' = message
       /\ progress' = [progress EXCEPT
                         !.chunkResults = Append(@, FailedResult(cur, message)),
                         !.failedChunks = @ + 1]
  /\ run' = [run EXCEPT !.delays = <<>>, !.fallbacks = Append(@, cur)]
  /\ pc' = AfterFailedChunk
  /\ retries' = 0
  /\ UNCHANGED <<ckptFile, chunkCount, todo, cur>>
  /\ UNCHANGED telVars
  /\ UNCHANGED fnVars

\* summarizeFailedChunk returns: its text is assigned to chunkResult.result.summary
\* (chunkResult is the object pushed last), then the checkpoint is saved
SummaryReturns ==
  /\ pc = "summarizing"
  /\ \E fallbackSummary \in FallbackSummaries, writeOk \in BOOLEAN :
       LET prog == [progress EXCEPT
                      !.chunkResults = ApplyFallback(@, fallbackSummary)]
       IN /\ progress' = prog
          /\ ckptFile' = saveCheckpoint(ckptFile, prog, writeOk)
          /\ run' = [run EXCEPT !.saveFailed = @ \/ ~writeOk]
  /\ pc' = "loop"
  /\ lastError' = ""
  /\ UNCHANGED <<chunkCount, todo, cur, retries>>
  /\ UNCHANGED telVars
  /\ UNCHANGED fnVars

\* the loop is over: reduce, clear the checkpoint, return
Finish ==
  /\ pc = "loop"
  /\ todo = <<>>
  /\ \E unlinkOk \in BOOLEAN :
       /\ ckptFile' = clearCheckpoint(ckptFile, unlinkOk)
       /\ run' = [run EXCEPT !.unlinkFailed = ckptFile.exists /\ ~unlinkOk,
                              !.final = [returned |-> TRUE,
                                         value |-> reduceResults(progress.chunkResults)]]
  /\ pc' = "done"
  /\ UNCHANGED <<progress, chunkCount, todo, cur, retries, lastError>>
  /\ UNCHANGED telVars
  /\ UNCHANGED fnVars

\* the process is killed during a run: memory is lost, the checkpoint file stays
Crash ==
  /\ pc \in Running
  /\ pc' = "idle"
  /\ progress' = NoProgress
  /\ chunkCount' = 0
  /\ todo' = <<>>
  /\ cur' = -1
  /\ retries' = 0
  /\ lastError' = ""
  /\ run' = [NoRun EXCEPT !.id = run.id, !.saveFailed = run.saveFailed,
                          !.crashed = TRUE,
                          !.doneAtCrash =
                             SeqToSet(CompletedIndices(progress.chunkResults))]
  /\ UNCHANGED ckptFile
  /\ UNCHANGED telVars
  /\ UNCHANGED fnVars

----------------------------------------------------------------------------
(* Specifications *)

\* nothing remembered, no chunkText or reduceResults call observed
NoMemo == [set |-> FALSE, config |-> NoConfig, result |-> NoResult, store |-> <<>>,
           since |-> 0]

NoChunking == [called |-> FALSE, text |-> <<>>, chunkSize |-> 0, overlap |-> 0,
               chunks |-> <<>>, leads |-> <<>>]

NoReduction == [calls |-> 0, input |-> <<>>, after |-> <<>>, first |-> NoReturn.value,
                second |-> NoReturn.value]

\* no compareFastVsReasoning run yet.  pc: where the run is; started: the models
\* generateText was called with, in call order; outcomes: for each call that
\* settled, whether it returned (TRUE) or threw; fastSuccess, reasoningSuccess: the
\* run's flags; summary: the stats the run printed
NoComparison ==
  [pc |-> "idle", started |-> <<>>, outcomes |-> <<>>, fastSuccess |-> TRUE,
   reasoningSuccess |-> TRUE, summary |-> <<>>]

FnInit ==
  /\ memo = NoMemo
  /\ chunking = NoChunking
  /\ reduction = NoReduction
  /\ comparison = NoComparison

----------------------------------------------------------------------------
(* Model comparison script (model-comparison.ts) *)

\* complexProblem.length
ProblemLength == 234

\* Math.ceil(length / 4)
TokensOf(length) == (length + 3) \div 4

\* costMap[model] || { input: 0.15, output: 0.60 }, in cents per 1k tokens
CostMap(model) ==
  IF model = "openai/gpt-5" THEN [input |-> 250, output |-> 1000]
  ELSE IF model = "openai/gpt-5.1-thinking" THEN [input |-> 300, output |-> 1200]
  ELSE [input |-> 15, output |-> 60]

\* the script's own estimateCost(model, inputTokens, outputTokens), in 1/100000 $
EstimateCallCost(model, inputTokens, outputTokens) ==
  inputTokens * CostMap(model).input + outputTokens * CostMap(model).output

\* what Date.now() - startTime can be when a call settles, and the lengths of the
\* text a call can return
CallLatencies == {0, 700, 1300}

TextLengths == {0, 5, 400}

\* the entry recorded in the try block, after generateText returned
SucceededCall(model, latencyMs, textLength, now) ==
  [model |-> model, task |-> "reasoning", latencyMs |-> latencyMs,
   inputTokens |-> TokensOf(ProblemLength), outputTokens |-> TokensOf(textLength),
   cost |-> EstimateCallCost(model, TokensOf(ProblemLength), TokensOf(textLength)),
   timestamp |-> now, success |-> TRUE]

\* variant: the entry of the try block, copied without changing the flag
FailedCallMarkedOk(model, latencyMs, now) ==
  [model |-> model, task |-> "reasoning", latencyMs |-> latencyMs,
   inputTokens |-> 0, outputTokens |-> 0, cost |-> 0, timestamp |-> now,
   success |-> TRUE]

\* the entry recorded in the catch block (the token counts still hold their
\* initial 0: they are assigned after generateText returns)
FailedCall(model, latencyMs, now) ==
  [model |-> model, task |-> "reasoning", latencyMs |-> latencyMs,
   inputTokens |-> 0, outputTokens |-> 0, cost |-> 0, timestamp |-> now,
   success |-> FALSE]

\* what the summary prints: the stats of both models if both calls succeeded
ComparisonSummary(store, fastSuccess, reasoningSuccess) ==
  IF fastSuccess /\ reasoningSuccess
  THEN <<getModelStats(store, "openai/gpt-5.1-thinking"),
         getModelStats(StoreAfterStats(store, "openai/gpt-5.1-thinking"),
                       "openai/gpt-5-mini")>>
  ELSE <<>>

\* compareFastVsReasoning up to its first await: generateText is called with the
\* first model
CompareStart ==
  /\ comparison.pc = "idle"
  /\ comparison' = [comparison EXCEPT !.pc = "fast",
                                      !.started = <<"openai/gpt-5.1-thinking">>]
  /\ UNCHANGED <<memo, chunking, reduction>>
  /\ UNCHANGED telVars
  /\ UNCHANGED exVars

\* the first call returns: its entry is recorded, then generateText is called
\* with the second model
FastReturns ==
  /\ comparison.pc = "fast"
  /\ \E latencyMs \in CallLatencies, textLength \in TextLengths :
       DoRecord(SucceededCall("openai/gpt-5.1-thinking", latencyMs, textLength,
                              Len(history) + 1))
  /\ comparison' = [comparison EXCEPT !.pc = "reasoning",
                                      !.outcomes = Append(@, TRUE),
                                      !.started = Append(@, "openai/gpt-5-mini")]
  /\ UNCHANGED <<memo, chunking, reduction>>
  /\ UNCHANGED exVars

\* the first call throws: the catch block records it and the function goes on
FastFails ==
  /\ comparison.pc = "fast"
  /\ \E latencyMs \in CallLatencies :
       DoRecord(FailedCall("openai/gpt-5.1-thinking", latencyMs, Len(history) + 1))
  /\ comparison' = [comparison EXCEPT !.pc = "reasoning",
                                      !.fastSuccess = FALSE,
                                      !.outcomes = Append(@, FALSE),
                                      !.started = Append(@, "openai/gpt-5-mini")]
  /\ UNCHANGED <<memo, chunking, reduction>>
  /\ UNCHANGED exVars

\* the second call returns: its entry is recorded, the summary is printed and the
\* function returns
ReasoningReturns ==
  /\ comparison.pc = "reasoning"
  /\ \E latencyMs \in CallLatencies, textLength \in TextLengths :
       LET t == SucceededCall("openai/gpt-5-mini", latencyMs, textLength,
                              Len(history) + 1)
           summary == ComparisonSummary(recordTelemetry(telemetryStore, t),
                                        comparison.fastSuccess, TRUE)
       IN /\ DoRecord(t)
          /\ comparison' = [comparison EXCEPT !.pc = "done",
                                              !.outcomes = Append(@, TRUE),
                                              !.summary = summary]
  /\ UNCHANGED <<memo, chunking, reduction>>
  /\ UNCHANGED exVars

\* the second call throws: recorded in the catch block; no stats are printed
ReasoningFails ==
  /\ comparison.pc = "reasoning"
  /\ \E latencyMs \in CallLatencies :
       LET t == FailedCall("openai/gpt-5-mini", latencyMs, Len(history) + 1)
       IN /\ DoRecord(t)
          /\ comparison' = [comparison EXCEPT
                              !.pc = "done",
                              !.reasoningSuccess = FALSE,
                              !.outcomes = Append(@, FALSE),
                              !.summary = ComparisonSummary(
                                            recordTelemetry(telemetryStore, t),
                                            comparison.fastSuccess, FALSE)]
  /\ UNCHANGED <<memo, chunking, reduction>>
  /\ UNCHANGED exVars

Init == TelInit /\ ExInit /\ FnInit

\* the router: callers record telemetry and select models
Next == RecordTelemetry \/ SelectModel

Spec == Init /\ [][Next]_vars

\* the telemetry store around its capacity: PreRecorded calls were made, more follow
InitTelemetry == TelInitRecorded /\ ExInit /\ FnInit

NextTelemetry == BurstTelemetry

SpecTelemetry == InitTelemetry /\ [][NextTelemetry]_vars

\* the router's whole interface: recording, selecting and the four queries
InitQueries == TelInitQueries /\ ExInit /\ FnInit

NextQueries ==
  \/ QueryRecord
  \/ GetModelTelemetry
  \/ GetModelStats
  \/ GetAllTelemetry
  \/ GetRoutingStats
  \/ QuerySelect

SpecQueries == InitQueries /\ [][NextQueries]_vars

\* the log of a lopsided caller around its capacity
InitFrame == TelInitFrame /\ ExInit /\ FnInit

NextFrame == FrameRecord

SpecFrame == InitFrame /\ [][NextFrame]_vars

\* the stats endpoint: callers record, GET reads getRoutingStats
NextRouting == RoutingRecord \/ GetRoutingStats

SpecRouting == InitQueries /\ [][NextRouting]_vars

\* the comparison script: one run of compareFastVsReasoning in its process, which
\* starts with an empty log
NextCompare ==
  \/ CompareStart
  \/ FastReturns
  \/ FastFails
  \/ ReasoningReturns
  \/ ReasoningFails

SpecCompare == Init /\ [][NextCompare]_vars

\* the router with an observer that compares selectModel calls
NextReplay == ReplayRecord \/ ReplaySelect \/ Remember

SpecReplay == Init /\ [][NextReplay]_vars

\* chunkText on every document, chunk size and overlap of the bounds
InitChunk ==
  /\ TelInit
  /\ ExInit
  /\ memo = NoMemo
  /\ reduction = NoReduction
  /\ comparison = NoComparison
  /\ \E text \in Docs, chunkSize \in ChunkSizes, overlap \in Overlaps :
       chunking = [called |-> FALSE, text |-> text, chunkSize |-> chunkSize,
                   overlap |-> overlap, chunks |-> <<>>, leads |-> <<>>]

ChunkText ==
  /\ ~chunking.called
  /\ LET r == chunkText(chunking.text, chunking.chunkSize, chunking.overlap)
     IN chunking' = [chunking EXCEPT !.called = TRUE, !.chunks = r.chunks,
                                     !.leads = r.leads]
  /\ UNCHANGED <<memo, reduction, comparison>>
  /\ UNCHANGED telVars
  /\ UNCHANGED exVars

NextChunk == ChunkText

SpecChunk == InitChunk /\ [][NextChunk]_vars

\* reduceResults twice on every list of chunk results of the bounds
InitReduce ==
  /\ TelInit
  /\ ExInit
  /\ memo = NoMemo
  /\ chunking = NoChunking
  /\ comparison = NoComparison
  /\ \E chunkResults \in ReduceInputs :
       reduction = [NoReduction EXCEPT !.input = chunkResults, !.after = chunkResults]

ReduceResults ==
  /\ reduction.calls < 2
  /\ LET value == reduceResults(reduction.after)
     IN reduction' = [reduction EXCEPT
                        !.calls = @ + 1,
                        !.after = InputAfterReduce(@),
                        !.first = IF reduction.calls = 0 THEN value ELSE @,
                        !.second = IF reduction.calls = 1 THEN value ELSE @]
  /\ UNCHANGED <<memo, chunking, comparison>>
  /\ UNCHANGED telVars
  /\ UNCHANGED exVars

NextReduce == ReduceResults

SpecReduce == InitReduce /\ [][NextReduce]_vars

\* the extractor: runs of extractLargeDocument on one document, with crashes
NextExtract ==
  \/ StartRun
  \/ StartMissingFile
  \/ LoopNext
  \/ ExtractSucceeds
  \/ ExtractFailsRetry
  \/ BackoffElapsed
  \/ ExtractFailsExhausted
  \/ SummaryReturns
  \/ Finish
  \/ Crash

SpecExtract == Init /\ [][NextExtract]_vars

\* one run of the extractor in streaming mode, not killed: every attempt can fail in
\* each of the four ways
NextStreaming ==
  \/ StartStreamingRun
  \/ LoopNext
  \/ ExtractSucceeds
  \/ ExtractFailsRetry
  \/ BackoffElapsed
  \/ ExtractFailsExhausted
  \/ SummaryReturns
  \/ Finish

SpecStreaming == Init /\ [][NextStreaming]_vars

\* the steps of a started run: each is the continuation of an await (a generation
\* call that returns or fails, a timer that fires) or synchronous code
RunSteps ==
  \/ LoopNext
  \/ ExtractSucceeds
  \/ ExtractFailsRetry
  \/ BackoffElapsed
  \/ ExtractFailsExhausted
  \/ SummaryReturns
  \/ Finish

\* one run of the extractor that is not killed and in which no generation call
\* hangs: the started run keeps taking steps
NextUnkilled == StartOnlyRun \/ RunSteps

SpecUnkilledFair == Init /\ [][NextUnkilled]_vars /\ WF_vars(RunSteps)

----------------------------------------------------------------------------
(* Telemetry store: claims C1, C2 (checked under SpecTelemetry) *)

\* C1: after any sequence of recordTelemetry calls the telemetry log holds at most
\* 1000 entries.
C1_LogAtMost1000 == Len(telemetryStore) <= 1000

\* more than 1000 entries were recorded and the log is full
C1_Witness == Len(history) > 1000 /\ Len(telemetryStore) = 1000

\* C2: eviction is FIFO: after n recordTelemetry calls the log is the last
\* min(n, 1000) recorded entries in arrival order.
C2_FifoEviction ==
  LET n == Len(history)
      m == IF n < 1000 THEN n ELSE 1000
  IN telemetryStore = SubSeq(history, n - m + 1, n)

\* 1001 entries were recorded: the earliest is gone, the second is now the oldest
C2_Witness ==
  /\ Len(history) = 1001
  /\ \A i \in 1..Len(telemetryStore) : telemetryStore[i] # history[1]
  /\ telemetryStore[1] = history[2]
  /\ telemetryStore[1000] = history[1001]

----------------------------------------------------------------------------
(* Extractor: claims C3 - C7 (checked under SpecExtract) *)

\* the chunk indices with a successful result among chunkResults
SuccessIndices(chunkResults) ==
  {chunkResults[i].chunkIndex :
     i \in {j \in 1..Len(chunkResults) : chunkResults[j].success}}

IsAscending(s) == \A i \in 1..Len(s) - 1 : s[i] < s[i + 1]

\* C3: a run that resumes from a checkpoint whose completedChunks is S calls chunk
\* extraction for exactly the indices of [0, n) outside S (never for one in S), and
\* the checkpoint's chunk results reach the reduce step unchanged: they are a prefix
\* of the list that is reduced, and what the completed ones hold is in the returned
\* aggregate.
C3_Resumability ==
  run.loaded.exists =>
    LET S == SeqToSet(run.loaded.completedChunks)
        prior == run.loaded.chunkResults
    IN /\ pc \in Running \cup {"done"} =>
            /\ SeqToSet(run.invoked) \cap S = {}
            /\ IsAscending(run.invoked)
            /\ Len(progress.chunkResults) >= Len(prior)
            /\ SubSeq(progress.chunkResults, 1, Len(prior)) = prior
       /\ pc = "done" =>
            /\ SeqToSet(run.invoked) = (0..chunkCount - 1) \ S
            /\ \A i \in 1..Len(prior) :
                 prior[i].success =>
                   /\ SeqToSet(prior[i].result.companies)
                        \subseteq SeqToSet(run.final.value.companies)
                   /\ SeqToSet(prior[i].result.quotes)
                        \subseteq SeqToSet(run.final.value.quotes)
                   /\ SeqToSet(prior[i].result.concepts.business)
                        \subseteq SeqToSet(run.final.value.concepts.business)
                   /\ SeqToSet(prior[i].result.concepts.technical)
                        \subseteq SeqToSet(run.final.value.concepts.technical)

\* a resumed run returned after skipping chunk 0 and processing chunk 1
C3_Witness ==
  /\ pc = "done"
  /\ run.loaded.exists
  /\ run.loaded.completedChunks = <<0>>
  /\ run.invoked = <<1>>
  /\ run.final.value.companies # <<>>

\* C4: in every checkpoint written, completedChunks is a subset of [0, totalChunks)
\* and is exactly the set of chunk indices whose result has success = true.
C4_CheckpointConsistent ==
  ckptFile.exists =>
    /\ SeqToSet(ckptFile.completedChunks) \subseteq 0..(ckptFile.totalChunks - 1)
    /\ SeqToSet(ckptFile.completedChunks) = SuccessIndices(ckptFile.chunkResults)

\* the results of the chunks this run has finished with (the failed result of the
\* chunk whose fallback summary is still awaited is not among them)
Processed ==
  IF pc = "summarizing"
  THEN SubSeq(progress.chunkResults, 1, Len(progress.chunkResults) - 1)
  ELSE progress.chunkResults

\* a generation call of this run is in flight after an earlier chunk was finished
NextChunkInFlight ==
  /\ pc \in {"extracting", "backoff", "summarizing"}
  /\ Len(run.invoked) > 1

\* the checkpoint file holds the snapshot of everything processed so far
SnapshotOnDisk ==
  /\ ckptFile.exists
  /\ ckptFile.totalChunks = progress.totalChunks
  /\ ckptFile.chunkResults = Processed
  /\ ckptFile.completedChunks = CompletedIndices(Processed)

\* a run with resume requested that follows a crashed run
ResumedAfterCrash == pc \in Running \cup {"done"} /\ run.resume /\ run.prevCrashed

\* C5 as stated: the snapshot is on disk before the next chunk's generation call
\* starts, and a resumed run after a crash skips every chunk that had completed
\* successfully before the crash.
C5_CrashLosesAtMostInFlight ==
  /\ NextChunkInFlight => SnapshotOnDisk
  /\ ResumedAfterCrash => SeqToSet(run.invoked) \cap run.prevDone = {}

\* C5, amended: the same, provided the checkpoint writes of the run concerned and
\* the checkpoint read of the resumed run succeeded.
C5_CrashLosesAtMostInFlightIfIoOk ==
  /\ (NextChunkInFlight /\ ~run.saveFailed) => SnapshotOnDisk
  /\ (ResumedAfterCrash /\ ~run.prevSaveFailed /\ ~run.readFailed) =>
       /\ SeqToSet(run.invoked) \cap run.prevDone = {}
       /\ run.prevDone \subseteq SeqToSet(run.loaded.completedChunks)

\* a run crashed with chunk 0 completed, and the resumed run returned having
\* processed chunk 1 only
C5_Witness ==
  /\ pc = "done"
  /\ run.resume /\ run.prevCrashed /\ ~run.prevSaveFailed /\ ~run.readFailed
  /\ run.prevDone = {0}
  /\ run.invoked = <<1>>

\* C6 (state part): a chunk is tried at most 4 times per run: it is handed to
\* processChunk once, retries never exceeds 3, and the delay slept before retry
\* number k is 1000 ms * k.
C6_State ==
  /\ retries \in 0..3
  /\ Cardinality(SeqToSet(run.invoked)) = Len(run.invoked)
  /\ \A k \in 1..Len(run.delays) : run.delays[k] = 1000 * k
  /\ pc = "extracting" => Len(run.delays) = retries
  /\ pc = "backoff" => Len(run.delays) = retries + 1 /\ retries < 3
  /\ pc \notin {"extracting", "backoff"} => retries = 0 /\ run.delays = <<>>

\* C6 (step part): a success ends the processChunk call (no further attempt for the
\* chunk), a failure of the attempt made after the third retry is followed by no
\* attempt, and an attempt starts only for a new chunk or after a backoff.
C6_Step ==
  /\ (pc = "extracting" /\ progress'.completedChunks = progress.completedChunks + 1)
       => pc' = "loop" /\ retries' = 0
  /\ (pc = "extracting" /\ retries = 3 /\ pc' \in Running) => pc' \in {"loop", "summarizing"}
  /\ (pc' = "extracting" /\ pc # "extracting") =>
       \/ pc = "loop" /\ retries' = 0 /\ cur' \notin SeqToSet(run.invoked)
       \/ pc = "backoff" /\ retries' = retries + 1 /\ cur' = cur

PushedThisRun ==
  SubSeq(progress.chunkResults, Len(run.loaded.chunkResults) + 1,
         Len(progress.chunkResults))

EmptyPayload(result) ==
  /\ result.keyTakeaway = ""
  /\ result.companies = <<>>
  /\ result.concepts = [business |-> <<>>, technical |-> <<>>]
  /\ result.quotes = <<>>

\* C7: a chunk that exhausts its retries is recorded with success = false, an error
\* message and an empty payload; the fallback summarization is called exactly once
\* for it and never for a chunk that succeeded; its text replaces the summary of the
\* recorded result, and of the result in the checkpoint written for that chunk.
C7_FailedChunkFallback ==
  LET pushed == PushedThisRun
      failedIdx == [i \in 1..Len(SelectSeq(pushed, IsFailure)) |->
                      SelectSeq(pushed, IsFailure)[i].chunkIndex]
  IN /\ pc \in Running \cup {"done"} => run.fallbacks = failedIdx
     /\ \A i \in 1..Len(pushed) :
          ~pushed[i].success =>
            /\ Len(pushed[i].error) = 1
            /\ pushed[i].error[1] \in Errors
            /\ EmptyPayload(pushed[i].result)
            /\ IF pc = "summarizing" /\ i = Len(pushed)
               THEN pushed[i].result.summary =
                      "[Extraction failed: " \o pushed[i].error[1] \o "]"
               ELSE pushed[i].result.summary \in FallbackSummaries
     /\ ckptFile.exists =>
          \A i \in 1..Len(ckptFile.chunkResults) :
            ~ckptFile.chunkResults[i].success =>
              /\ EmptyPayload(ckptFile.chunkResults[i].result)
              /\ ckptFile.chunkResults[i].result.summary \in FallbackSummaries

\* chunk 0 failed for good, its fallback summary is in the tracker and on disk, and
\* chunk 1 succeeded without a fallback call
C7_Witness ==
  /\ pc = "loop"
  /\ Len(PushedThisRun) = 2
  /\ ~PushedThisRun[1].success /\ PushedThisRun[1].result.summary = "fb"
  /\ PushedThisRun[2].success
  /\ run.fallbacks = <<0>>
  /\ ckptFile.exists /\ ckptFile.chunkResults = progress.chunkResults

----------------------------------------------------------------------------
(* Router: claims C8 - C10 (checked under Spec) *)

\* the last router call was a selectModel call that returned a model
Selected == lastCall.op = "selectModel" /\ ~lastCall.result.threw

\* position of a fullName in the registry (0 if it is not there)
RegistryIndex(fullName) ==
  IF \E i \in 1..Len(MODEL_REGISTRY) : MODEL_REGISTRY[i].fullName = fullName
  THEN CHOOSE i \in 1..Len(MODEL_REGISTRY) : MODEL_REGISTRY[i].fullName = fullName
  ELSE 0

\* positions of the models the last call found viable
ViableIndices == {RegistryIndex(lastCall.result.viable[k]) :
                    k \in 1..Len(lastCall.result.viable)}

\* the combined weighted score of registry model i for the config of the last call
CallScore(i) ==
  LET tokens == lastCall.config.estimatedTokens
      inputTokens == IF tokens.type = "number" /\ tokens.value # 0
                     THEN tokens.value ELSE 1000
  IN scoreModel(telemetryStore, MODEL_REGISTRY[i], lastCall.config,
                inputTokens, inputTokens \div 2)

\* C8: when the viable set is non-empty, selectModel returns a viable model that no
\* viable model outscores, and every viable model before it in registry order
\* scores strictly less (among equals the first in registry order is returned).
C8_MaxScoreFirstInRegistry ==
  (Selected /\ Len(lastCall.result.viable) > 0) =>
    LET sel == RegistryIndex(lastCall.result.model)
    IN /\ sel \in ViableIndices
       /\ \A j \in ViableIndices : ~NumLess(CallScore(sel), CallScore(j))
       /\ \A j \in ViableIndices : j < sel => NumLess(CallScore(j), CallScore(sel))

\* two viable models share the maximal score and the earlier one was returned
C8_Witness ==
  /\ Selected
  /\ Len(lastCall.result.viable) >= 2
  /\ LET sel == RegistryIndex(lastCall.result.model)
     IN \E j \in ViableIndices :
          /\ j > sel
          /\ CallScore(j) = CallScore(sel)
          /\ ~IsNaN(CallScore(sel))

\* latencies of the (at most) 100 most recent entries of a model in the log
RecentLatencies(fullName) ==
  LET ofModel(t) == t.model = fullName
      own == SelectSeq(telemetryStore, ofModel)
      recent == IF Len(own) > 100 THEN SubSeq(own, Len(own) - 99, Len(own)) ELSE own
  IN [k \in 1..Len(recent) |-> recent[k].latencyMs]

\* effective latency of registry model i as a fraction <<sum, count>>: the mean of
\* its recent latencies when there are more than 5 of them, else the static figure
EffectiveLatency(i) ==
  LET recent == RecentLatencies(MODEL_REGISTRY[i].fullName)
  IN IF Len(recent) > 5 THEN <<SumSeq(recent), Len(recent)>>
     ELSE <<MODEL_REGISTRY[i].avgLatencyMs, 1>>

\* effective latency of model i is lower than that of model j
LowerLatency(i, j) ==
  EffectiveLatency(i)[1] * EffectiveLatency(j)[2]
    < EffectiveLatency(j)[1] * EffectiveLatency(i)[2]

\* registry positions whose effective latency is within the bound of the last call
WithinBound ==
  {i \in 1..Len(MODEL_REGISTRY) :
     EffectiveLatency(i)[1] <= lastCall.config.maxLatencyMs * EffectiveLatency(i)[2]}

\* C9: the viable set of a selectModel call is exactly the registry models whose
\* effective latency is <= maxLatencyMs; a call with a valid config returns the id
\* of a registry model; when the viable set is empty it returns the model with the
\* lowest effective latency of the registry, the first in registry order among equals.
C9_ViableSetAndFallback ==
  (lastCall.op = "selectModel" /\ RouterConfigSchema(lastCall.config)) =>
    /\ Selected
    /\ ViableIndices = WithinBound
    /\ Len(lastCall.result.viable) = Cardinality(WithinBound)
    /\ RegistryIndex(lastCall.result.model) \in 1..Len(MODEL_REGISTRY)
    /\ WithinBound = {} =>
         LET sel == RegistryIndex(lastCall.result.model)
         IN /\ lastCall.result.warned
            /\ \A j \in 1..Len(MODEL_REGISTRY) : ~LowerLatency(j, sel)
            /\ \A j \in 1..(sel - 1) : LowerLatency(sel, j)

\* no model met the bound, two models share the lowest effective latency (one of
\* them through telemetry), and the earlier one was returned
C9_Witness ==
  /\ Selected
  /\ WithinBound = {}
  /\ Len(lastCall.result.viable) = 0
  /\ LET sel == RegistryIndex(lastCall.result.model)
     IN /\ sel \in 1..Len(MODEL_REGISTRY)
        /\ Len(RecentLatencies(lastCall.result.model)) > 5
        /\ \E j \in (sel + 1)..Len(MODEL_REGISTRY) :
             ~LowerLatency(sel, j) /\ ~LowerLatency(j, sel)

\* a selectModel call with a rejected config: nothing was returned
Rejected ==
  lastCall.op = "selectModel" /\ lastCall.result.threw /\ lastCall.result.model = ""

\* a step in which a selectModel call completes
SelectModelStep == lastCall'.op = "selectModel" /\ lastCall' # lastCall

\* the telemetry log is the same before and after the step
LogUnchanged == telemetryStore' = telemetryStore /\ history' = history

\* C10 (as stated): a config with an unknown task or a negative maxLatencyMs is
\* rejected with no model id returned and the telemetry log unchanged; every
\* config with a known task, a known priority and maxLatencyMs >= 0 is accepted.
C10_Validation ==
  /\ [](lastCall.op = "selectModel" =>
          /\ (lastCall.config.task \notin Tasks \/ lastCall.config.maxLatencyMs < 0)
               => Rejected
          /\ (/\ lastCall.config.task \in Tasks
              /\ lastCall.config.priority \in Priorities
              /\ lastCall.config.maxLatencyMs >= 0) => Selected)
  /\ [][SelectModelStep => LogUnchanged]_vars

\* C10 (amended): as above, but a config is accepted when, besides a known task,
\* a known priority and maxLatencyMs >= 0, its estimatedTokens is absent or a number.
C10_ValidationTypedTokens ==
  /\ [](lastCall.op = "selectModel" =>
          /\ (lastCall.config.task \notin Tasks \/ lastCall.config.maxLatencyMs < 0)
               => Rejected
          /\ (/\ lastCall.config.task \in Tasks
              /\ lastCall.config.priority \in Priorities
              /\ lastCall.config.maxLatencyMs >= 0
              /\ lastCall.config.estimatedTokens.type \in {"undefined", "number"})
               => Selected)
  /\ [][SelectModelStep => LogUnchanged]_vars

\* a config with a negative maxLatencyMs was rejected while the log held entries
C10_Witness ==
  /\ Rejected
  /\ lastCall.config.task \in Tasks
  /\ lastCall.config.maxLatencyMs < 0
  /\ Len(telemetryStore) > 0

----------------------------------------------------------------------------
(* Router: claims C11 - C16 *)

\* the input token estimate selectModel derives from the config of the last call
CallInputTokens ==
  LET tokens == lastCall.config.estimatedTokens
  IN IF tokens.type = "number" /\ tokens.value # 0 THEN tokens.value ELSE 1000

\* the estimated cost of registry model i for the config of the last call
CallCost(i) ==
  estimateCost(MODEL_REGISTRY[i], CallInputTokens, CallInputTokens \div 2)

\* the task capability (in hundredths) of registry model i for the last call
CallCapability(i) == MODEL_REGISTRY[i].taskCapabilities[lastCall.config.task]

\* C11: with priority = cost, the returned model's estimated cost is <= that of
\* every other viable model whose task capability is within 0.05 of its own.
C11_CostDominance ==
  (Selected /\ lastCall.config.priority = "cost") =>
    LET sel == RegistryIndex(lastCall.result.model)
    IN \A j \in ViableIndices \ {sel} :
         Abs(CallCapability(j) - CallCapability(sel)) <= 5
           => NumLeq(CallCost(sel), CallCost(j))

\* the config of runDemo's test case 1
DemoConfig1 ==
  [task |-> "classification", maxLatencyMs |-> 2000, priority |-> "cost",
   estimatedTokens |-> Undefined]

\* C12: with an empty telemetry log, selectModel({task: classification,
\* maxLatencyMs: 2000, priority: cost}) returns openai/gpt-4o-mini.
C12_DemoSelectsBasicTier ==
  (lastCall.op = "selectModel" /\ lastCall.config = DemoConfig1
     /\ telemetryStore = <<>>)
    => lastCall.result.model = "openai/gpt-4o-mini"

\* the last call repeats the remembered one: same config, same log contents
Repeated ==
  /\ lastCall.op = "selectModel"
  /\ memo.set
  /\ memo.config = lastCall.config
  /\ memo.store = telemetryStore

ReadOnlyOps == {"selectModel", "getModelTelemetry", "getModelStats",
                "getAllTelemetry", "getRoutingStats"}

\* C14: selectModel, getModelTelemetry, getModelStats, getAllTelemetry and
\* getRoutingStats leave the telemetry log unchanged: same entries, same order
\* (checked under SpecQueries, where every step is one call of the interface).
C14_ReadersLeaveLog ==
  [][lastCall'.op \in ReadOnlyOps => telemetryStore' = telemetryStore]_vars

\* getAllTelemetry returned the entries most recent first while the log still
\* holds them oldest first
C14_Witness ==
  /\ lastCall.op = "getAllTelemetry"
  /\ Len(lastCall.result) >= 2
  /\ Len(lastCall.result) = Len(telemetryStore)
  /\ lastCall.result[1].timestamp > lastCall.result[2].timestamp
  /\ telemetryStore[1].timestamp < telemetryStore[2].timestamp

\* the entries of a model in the log, oldest first
OwnEntries(model) ==
  LET ofModel(t) == t.model = model IN SelectSeq(telemetryStore, ofModel)

\* the m most recent elements of s, most recent first
MostRecentFirst(s, m) == [i \in 1..m |-> s[Len(s) + 1 - i]]

\* C15: for every model id and every limit >= 0, getModelTelemetry(model, limit)
\* returns at most limit entries, all of that model: its most recent entries in
\* the log, most recent first (checked under SpecQueries).
C15_MostRecentUpToLimit ==
  lastCall.op = "getModelTelemetry" =>
    LET own == OwnEntries(lastCall.model)
        m == IF lastCall.limit < Len(own) THEN lastCall.limit ELSE Len(own)
    IN /\ Len(lastCall.result) <= lastCall.limit
       /\ lastCall.result = MostRecentFirst(own, m)

\* the (at most) 100 most recent entries of a model in the log, oldest first
Recent100(model) ==
  LET own == OwnEntries(model)
  IN IF Len(own) > 100 THEN SubSeq(own, Len(own) - 99, Len(own)) ELSE own

\* the fraction x equals n / d
IsFraction(x, n, d) == ~IsNaN(x) /\ x.n * d = n * x.d

\* C16: getModelStats(model) is absent exactly when the log holds no entry of the
\* model; otherwise callCount is min(100, number of its entries), successRate is
\* successes / callCount, and the min, max and mean latency and the total and mean
\* cost are those of exactly its most recent callCount entries
\* (checked under SpecQueries).
C16_StatsOverRecent ==
  lastCall.op = "getModelStats" =>
    LET recent == Recent100(lastCall.model)
        n == Len(recent)
        stats == lastCall.result
        latencySum == SumSeq([i \in 1..n |-> recent[i].latencyMs])
        costSum == SumSeq([i \in 1..n |-> recent[i].cost])
        successes == Cardinality({i \in 1..n : recent[i].success})
    IN /\ stats.absent <=> Len(OwnEntries(lastCall.model)) = 0
       /\ ~stats.absent =>
            /\ stats.callCount = n
            /\ IsFraction(stats.successRate, successes, n)
            /\ IsFraction(stats.avgLatencyMs, latencySum, n)
            /\ IsFraction(stats.avgCost, costSum, n)
            /\ stats.totalCost = costSum
            /\ \A i \in 1..n : stats.minLatencyMs <= recent[i].latencyMs
            /\ \E i \in 1..n : stats.minLatencyMs = recent[i].latencyMs
            /\ \A i \in 1..n : stats.maxLatencyMs >= recent[i].latencyMs
            /\ \E i \in 1..n : stats.maxLatencyMs = recent[i].latencyMs

\* stats of a model with more than 100 entries in the log, the most recent of them
\* a failed call slower than the others
C16_Witness ==
  /\ lastCall.op = "getModelStats"
  /\ Len(OwnEntries(lastCall.model)) > 100
  /\ lastCall.result.callCount = 100
  /\ lastCall.result.minLatencyMs < lastCall.result.maxLatencyMs
  /\ lastCall.result.successRate = Rat(99, 100)

----------------------------------------------------------------------------
(* Extractor: claims C17 - C20 *)

\* a text cut after every run of terminators, the rest of the text being the last
\* piece (nothing is left out)
RECURSIVE CutAfterTerminators(_, _)
CutAfterTerminators(text, i) ==
  IF i > Len(text) THEN <<>>
  ELSE LET j == RunEnd(text, i, FALSE)
       IN IF j = Len(text) THEN <<SubSeq(text, i, j)>>
          ELSE LET k == RunEnd(text, j + 1, TRUE)
               IN <<SubSeq(text, i, k)>> \o CutAfterTerminators(text, k + 1)

\* a piece with text in it: a character that is neither blank nor terminator
HasWord(piece) == \E k \in 1..Len(piece) : ~IsSpace(piece[k]) /\ ~IsTerminator(piece[k])

\* the sentence sequence of a text: its pieces that have text in them, trimmed,
\* trailing text without a terminator included
RECURSIVE TrimAll(_)
TrimAll(pieces) ==
  IF pieces = <<>> THEN <<>> ELSE <<Trim(pieces[1])>> \o TrimAll(Tail(pieces))

SentenceSequence(text) == TrimAll(SelectSeq(CutAfterTerminators(text, 1), HasWord))

\* the chunks concatenated after removing each chunk's leading overlap
RECURSIVE WithoutOverlap(_, _)
WithoutOverlap(chunks, leads) ==
  IF chunks = <<>> THEN <<>>
  ELSE SubSeq(chunks[1], leads[1] + 1, Len(chunks[1]))
         \o WithoutOverlap(Tail(chunks), Tail(leads))

\* C17: for every document and chunk size, the chunks returned by chunkText,
\* concatenated after removing each chunk's leading overlap, give the document's
\* sentence sequence in order: no sentence and no trailing text is dropped
\* (checked under SpecChunk).
C17_ChunkingRoundTrip ==
  chunking.called =>
    SentenceSequence(WithoutOverlap(chunking.chunks, chunking.leads))
      = SentenceSequence(chunking.text)

\* lists[i] being what chunk result i holds in one field (companies, quotes, ...):
\* the items of the successful ones among the first n, in chunk-result order
RECURSIVE ItemsUpTo(_, _, _)
ItemsUpTo(chunkResults, lists, n) ==
  IF n = 0 THEN <<>>
  ELSE ItemsUpTo(chunkResults, lists, n - 1)
         \o (IF chunkResults[n].success THEN lists[n] ELSE <<>>)

CompaniesOf(chunkResults) ==
  ItemsUpTo(chunkResults,
            [i \in 1..Len(chunkResults) |-> chunkResults[i].result.companies],
            Len(chunkResults))

BusinessOf(chunkResults) ==
  ItemsUpTo(chunkResults,
            [i \in 1..Len(chunkResults) |-> chunkResults[i].result.concepts.business],
            Len(chunkResults))

TechnicalOf(chunkResults) ==
  ItemsUpTo(chunkResults,
            [i \in 1..Len(chunkResults) |-> chunkResults[i].result.concepts.technical],
            Len(chunkResults))

QuotesOf(chunkResults) ==
  ItemsUpTo(chunkResults,
            [i \in 1..Len(chunkResults) |-> chunkResults[i].result.quotes],
            Len(chunkResults))

\* the summaries that are not empty
SummariesOf(chunkResults) ==
  ItemsUpTo(chunkResults,
            [i \in 1..Len(chunkResults) |->
               IF chunkResults[i].result.summary = "" THEN <<>>
               ELSE <<chunkResults[i].result.summary>>],
            Len(chunkResults))

\* s names every item of items, each once
DuplicateFreeUnion(s, items) ==
  /\ SeqToSet(s) = SeqToSet(items)
  /\ \A i, j \in 1..Len(s) : s[i] = s[j] => i = j

\* the first n strings put one after the other with a blank in between
RECURSIVE SpaceJoined(_, _)
SpaceJoined(strs, n) ==
  IF n = 0 THEN ""
  ELSE IF n = 1 THEN strs[1]
  ELSE SpaceJoined(strs, n - 1) \o " " \o strs[n]

Min(a, b) == IF a < b THEN a ELSE b

\* value is what the claim says of the reduction of chunkResults
ReducedAsStated(chunkResults, value) ==
  LET summaries == SummariesOf(chunkResults)
      firstThree == SpaceJoined(summaries, Min(3, Len(summaries)))
  IN /\ DuplicateFreeUnion(value.companies, CompaniesOf(chunkResults))
     /\ DuplicateFreeUnion(value.concepts.business, BusinessOf(chunkResults))
     /\ DuplicateFreeUnion(value.concepts.technical, TechnicalOf(chunkResults))
     /\ value.quotes = QuotesOf(chunkResults)
     /\ value.summary = SpaceJoined(summaries, Len(summaries))
     /\ IF summaries = <<>>
        THEN value.keyTakeaway = "Unable to extract key takeaway from document."
        ELSE /\ Len(value.keyTakeaway) = Min(250, Len(firstThree))
             /\ value.keyTakeaway = SubSeq(firstThree, 1, Len(value.keyTakeaway))

\* C18: the result of reduceResults is made of the successful chunk results only:
\* companies, business concepts and technical concepts are their duplicate-free unions,
\* quotes and summary their quotes and (non-empty) summaries in chunk-result order,
\* keyTakeaway the space-join of the first three non-empty summaries cut to at most
\* 250 characters, or the fixed placeholder when there is no summary (checked under
\* SpecReduce).
C18_ReduceOverSuccessful ==
  reduction.calls >= 1 => ReducedAsStated(reduction.input, reduction.first)

\* reduceResults has reduced a list with a failed result that has companies, a company
\* named more than once and more than 250 characters in its first three summaries
C18_Witness ==
  /\ reduction.calls >= 1
  /\ \E i \in 1..Len(reduction.input) :
       ~reduction.input[i].success /\ reduction.input[i].result.companies # <<>>
  /\ Len(reduction.first.companies)
       < Len(CompaniesOf(reduction.input))
  /\ Len(reduction.first.keyTakeaway) = 250
  /\ Len(reduction.first.summary) > 250

Returned == pc = "done" /\ run.final.returned

\* the chunk indices of the current run that were not completed in the checkpoint it
\* resumed from
PendingChunks ==
  {idx \in 0..(chunkCount - 1) : idx \notin SeqToSet(run.loaded.completedChunks)}

\* the chunk indices that have a result in the progress tracker
RecordedChunks ==
  {progress.chunkResults[i].chunkIndex : i \in 1..Len(progress.chunkResults)}

\* a step that deletes the checkpoint file is taken when every pending chunk has a
\* recorded result, and it is the step that returns the reduction of those results
DeletionAfterReduce ==
  (ckptFile.exists /\ ~ckptFile'.exists) =>
    /\ PendingChunks \subseteq RecordedChunks
    /\ pc \in Running
    /\ run'.final = [returned |-> TRUE, value |-> reduceResults(progress.chunkResults)]
    /\ pc' = "done"

\* C20: whenever extractLargeDocument has returned its ExtractionResult there is no
\* checkpoint file for the document, and the file is deleted only once every pending
\* chunk has a recorded result and reduceResults has run (checked under SpecExtract).
C20_DoneDeletesCheckpoint ==
  /\ [](Returned => ~ckptFile.exists)
  /\ [][DeletionAfterReduce]_vars

\* C20 as it holds: the same, for the returns where unlinkSync did not throw (a failed
\* deletion is caught in clearCheckpoint and the result is returned with the file
\* still on disk).
C20_DoneDeletesCheckpointIfUnlinkOk ==
  /\ []((Returned /\ ~run.unlinkFailed) => ~ckptFile.exists)
  /\ [][DeletionAfterReduce]_vars

\* a run that processed chunks and saved its checkpoint after each of them has
\* returned, and the checkpoint file is gone
C20_Witness ==
  /\ Returned
  /\ run.invoked # <<>>
  /\ ~run.saveFailed
  /\ ~run.unlinkFailed
  /\ PendingChunks # {}
  /\ PendingChunks \subseteq RecordedChunks
  /\ ~ckptFile.exists

----------------------------------------------------------------------------
(* Router: claims C22, C23 *)

\* C22: the effective latency of every registry model is the mean latency of its (at
\* most 100) most recent log entries, failed calls included, when the log holds more
\* than 5 entries of the model, and the registry's static average otherwise, in
\* particular with exactly 5 entries (checked under Spec).
C22_EffectiveLatency ==
  \A i \in 1..Len(MODEL_REGISTRY) :
    getCurrentLatency(telemetryStore, MODEL_REGISTRY[i])
      = Rat(EffectiveLatency(i)[1], EffectiveLatency(i)[2])

\* the log holds six entries of a model, failed ones among them, whose mean latency
\* is not the static average
C22_Witness ==
  \E i \in 1..Len(MODEL_REGISTRY) :
    /\ Len(RecentLatencies(MODEL_REGISTRY[i].fullName)) = 6
    /\ \E k \in 1..Len(telemetryStore) :
         telemetryStore[k].model = MODEL_REGISTRY[i].fullName /\ ~telemetryStore[k].success
    /\ getCurrentLatency(telemetryStore, MODEL_REGISTRY[i])
         # Rat(MODEL_REGISTRY[i].avgLatencyMs, 1)

\* x is a number in [0, 1]
InUnitInterval(x) == NumLeq(Rat(0, 1), x) /\ NumLeq(x, Rat(1, 1))

\* the latency score of registry model i for the config of the last call
CallLatencyScore(i) ==
  LatencyScore(getCurrentLatency(telemetryStore, MODEL_REGISTRY[i]),
               lastCall.config.maxLatencyMs)

\* C23: for every config accepted by validation and every model scored by the call,
\* latencyScore lies in [0, 1], costScore in (0, 1] and the combined score in [0, 1]
\* (checked under Spec).
C23_ScoresInUnitInterval ==
  (Selected /\ RouterConfigSchema(lastCall.config)) =>
    \A i \in ViableIndices :
      /\ InUnitInterval(CallLatencyScore(i))
      /\ InUnitInterval(CostScore(CallCost(i)))
      /\ NumLess(Rat(0, 1), CostScore(CallCost(i)))
      /\ InUnitInterval(CallScore(i))

----------------------------------------------------------------------------
(* Extractor: claims C21, C24 - C30 *)

\* extractLargeDocument threw because the document is missing
FailedMissing == pc = "failed"

\* C21: a call of extractLargeDocument on a path that does not exist fails with the
\* file-not-found error; no checkpoint was read or written and no generation call
\* made by then (the checkpoint file is what it was before the call), and main exits
\* with a non-zero status (checked under SpecExtract).
C21_MissingFileFailsFirst ==
  /\ [](FailedMissing =>
          /\ run.thrown = "File not found"
          /\ ~run.final.returned
          /\ run.loaded = NoFile /\ ~run.readFailed
          /\ ~run.saveFailed /\ ~run.unlinkFailed
          /\ run.invoked = <<>> /\ run.fallbacks = <<>> /\ run.delays = <<>>
          /\ progress.chunkResults = <<>>
          /\ run.exitCode # 0)
  /\ [][FailedMissing' => ckptFile' = ckptFile]_vars

\* the call failed on a missing document while the checkpoint of a crashed run of
\* the document was on disk
C21_Witness ==
  /\ FailedMissing
  /\ run.resume
  /\ run.prevCrashed
  /\ ckptFile.exists

\* the generation calls in flight: the extraction attempt or the fallback
\* summarization the run is awaiting
CallsInFlight ==
  (IF pc = "extracting" THEN {<<"extract", cur>>} ELSE {})
    \cup (IF pc = "summarizing" THEN {<<"summarize", cur>>} ELSE {})

\* the chunks were handed to processChunk in ascending index order
AscendingOrder ==
  \A i, j \in 1..Len(run.invoked) : i < j => run.invoked[i] < run.invoked[j]

\* a step in which the first attempt for a chunk starts
FirstAttemptStarts == run'.id = run.id /\ Len(run'.invoked) = Len(run.invoked) + 1

\* the chunk handed to processChunk last has its result (a success, or a failure with
\* its fallback summarization done) in the progress tracker, and no call is in flight
PreviousChunkSettled ==
  run.invoked # <<>> =>
    /\ CallsInFlight = {}
    /\ Len(PushedThisRun) = Len(run.invoked)
    /\ LET last == PushedThisRun[Len(PushedThisRun)]
       IN /\ last.chunkIndex = run.invoked[Len(run.invoked)]
          /\ last.success \/ last.chunkIndex \in SeqToSet(run.fallbacks)

\* the checkpoint file holds the progress tracker's results
CheckpointWritten == run.invoked # <<>> => ckptFile = CheckpointOf(progress)

\* C24: chunk processing is strictly sequential: at most one generation call is in
\* flight, chunks are processed in ascending index order, and the first attempt for
\* a chunk starts only after the previous chunk has succeeded or exhausted its retries
\* and its checkpoint has been written (checked under SpecExtract).
C24_Sequential ==
  /\ [](Cardinality(CallsInFlight) <= 1 /\ AscendingOrder)
  /\ [][FirstAttemptStarts => (PreviousChunkSettled /\ CheckpointWritten)]_vars

\* C24 as it holds: the same, with the checkpoint of the previous chunk written unless
\* a write of the run failed (saveCheckpoint catches the error and the loop goes on).
C24_SequentialSaveAttempted ==
  /\ [](Cardinality(CallsInFlight) <= 1 /\ AscendingOrder)
  /\ [][FirstAttemptStarts =>
          (PreviousChunkSettled /\ (CheckpointWritten \/ run.saveFailed))]_vars

\* the first attempt for chunk 1 is in flight after chunk 0 exhausted its retries, got
\* its fallback summary and was checkpointed
C24_Witness ==
  /\ pc = "extracting"
  /\ retries = 0
  /\ run.invoked = <<0, 1>>
  /\ run.fallbacks = <<0>>
  /\ ~run.saveFailed
  /\ ckptFile = CheckpointOf(progress)

\* the run has a chunk whose result is a failure
SomeChunkFailed ==
  \E i \in 1..Len(progress.chunkResults) : ~progress.chunkResults[i].success

\* C25: the checkpoint is deleted on full success only: when a run that wrote its
\* checkpoints returns with at least one chunk still failed, the checkpoint file is
\* still in place and lists that chunk as not completed (checked under SpecExtract).
C25_CheckpointKeptOnFailure ==
  (Returned /\ SomeChunkFailed /\ ~run.saveFailed) =>
    /\ ckptFile.exists
    /\ \A i \in 1..Len(progress.chunkResults) :
         ~progress.chunkResults[i].success =>
           progress.chunkResults[i].chunkIndex \notin SeqToSet(ckptFile.completedChunks)

\* an extraction attempt fails in this step
AttemptFails == pc = "extracting" /\ run'.id = run.id /\ pc' \in {"backoff", "summarizing"}

\* the result processChunk returns for the failed chunk: only its summary and error
\* carry the message
FailedAs(chunkIndex, message) ==
  [chunkIndex |-> chunkIndex,
   result |-> [keyTakeaway |-> "", companies |-> <<>>,
               concepts |-> [business |-> <<>>, technical |-> <<>>],
               quotes |-> <<>>,
               summary |-> "[Extraction failed: " \o message \o "]"],
   success |-> FALSE,
   error |-> <<message>>]

\* C26: in processChunk an error thrown by the generation call, a streamed response
\* without a JSON object, a JSON parse failure and a schema-validation failure take
\* the same path: a retry while fewer than 3 retries were made, otherwise a result
\* with success = false that differs between them only by the text of the message
\* (checked under SpecStreaming).
C26_FailuresShareOnePath ==
  [][AttemptFails =>
       /\ lastError' \in Errors
       /\ IF retries < 3
          THEN /\ pc' = "backoff"
               /\ progress' = progress
               /\ ckptFile' = ckptFile
          ELSE /\ pc' = "summarizing"
               /\ progress'.chunkResults
                    = Append(progress.chunkResults, FailedAs(cur, lastError'))
               /\ progress'.failedChunks = progress.failedChunks + 1
               /\ progress'.completedChunks = progress.completedChunks]_vars

\* a chunk was given up after three retries on a schema-validation failure of the
\* streamed JSON
C26_Witness ==
  /\ pc = "summarizing"
  /\ run.useStreaming
  /\ lastError = "Failed to parse JSON from stream: Required"
  /\ PushedThisRun # <<>>
  /\ PushedThisRun[Len(PushedThisRun)] = FailedAs(cur, lastError)

\* the results of the run for the chunks the checkpoint found on disk does not list
\* as completed
PushedForPending ==
  LET pending(r) == r.chunkIndex \notin SeqToSet(run.found.completedChunks)
  IN SelectSeq(PushedThisRun, pending)

\* a step in which a checkpoint operation fails
LoadFails == run'.id # run.id /\ run'.readFailed
SaveFails == run'.id = run.id /\ ~run.saveFailed /\ run'.saveFailed
ClearFails == run'.id = run.id /\ ~run.unlinkFailed /\ run'.unlinkFailed

\* the run goes on after the failed operation as it does after a successful one
GoesOn ==
  /\ LoadFails => pc' = "loop"
  /\ SaveFails => /\ pc' = "loop"
                  /\ todo' = todo
                  /\ Len(progress'.chunkResults) = Len(run'.loaded.chunkResults)
                                                     + Len(run'.invoked)
  /\ ClearFails => pc' = "done" /\ run'.final.returned

\* every chunk the loaded checkpoint does not list as completed was processed, in
\* ascending order, and the value returned is the reduction of the results held
AllProcessedAndReduced ==
  Returned =>
    /\ SeqToSet(run.invoked) = PendingChunks
    /\ AscendingOrder
    /\ Len(PushedThisRun) = Len(run.invoked)
    /\ ReducedAsStated(progress.chunkResults, run.final.value)

\* the value returned is the one of a run that loaded the checkpoint on disk: the
\* reduction of the checkpoint's results followed by the results for its pending chunks
ReturnsAsIfLoaded ==
  Returned => ReducedAsStated(run.found.chunkResults \o PushedForPending, run.final.value)

\* C27: a failure to load, save or clear the checkpoint file never aborts
\* extractLargeDocument: the remaining chunks are still processed in order and the
\* ExtractionResult returned is the one returned had the operation succeeded
\* (checked under SpecExtract).
C27_CheckpointFailuresNonFatal ==
  /\ [](AllProcessedAndReduced /\ ReturnsAsIfLoaded)
  /\ [][GoesOn]_vars

\* C27 as it holds: the same for a failed save or clear; after a failed load the run
\* goes on as a run without checkpoint and returns the reduction of its own results.
C27_SaveAndClearFailuresNonFatal ==
  /\ [](AllProcessedAndReduced /\ (~run.readFailed => ReturnsAsIfLoaded))
  /\ [][GoesOn]_vars

\* a resumed run of two chunks returned although reading the checkpoint, a write of
\* it and its deletion failed
C27_Witness ==
  /\ Returned
  /\ run.readFailed /\ run.saveFailed /\ run.unlinkFailed
  /\ run.found.exists
  /\ run.invoked = <<0, 1>>

OneResultPerChunk(chunkResults) ==
  \A i, j \in 1..Len(chunkResults) :
    chunkResults[i].chunkIndex = chunkResults[j].chunkIndex => i = j

\* C29: in every run, fresh or resumed from a checkpoint that contains failed chunks,
\* the progress tracker's chunkResults and the chunkResults of every checkpoint
\* written hold at most one result per chunk index, and completedChunks +
\* failedChunks never exceeds totalChunks.
C29_OneResultPerChunk ==
  /\ pc \in Running =>
       /\ OneResultPerChunk(progress.chunkResults)
       /\ progress.completedChunks + progress.failedChunks <= progress.totalChunks
  /\ ckptFile.exists => OneResultPerChunk(ckptFile.chunkResults)

\* sub occurs in str (both strings)
Contains(str, sub) ==
  \E i \in 1..(Len(str) - Len(sub) + 1) : SubSeq(str, i, i + Len(sub) - 1) = sub

\* the texts the failed results of the list carry: their summary (the fallback
\* summary, once assigned) and their failure message; FallbackSummaries and Errors
\* are all the fallback summaries and failure messages there are
FailedTexts(chunkResults) ==
  UNION {{chunkResults[i].result.summary} \cup SeqToSet(chunkResults[i].error) :
           i \in {j \in 1..Len(chunkResults) : ~chunkResults[j].success}}

EmptyResult ==
  [keyTakeaway |-> NoTakeaway, companies |-> <<>>,
   concepts |-> [business |-> <<>>, technical |-> <<>>], quotes |-> <<>>,
   summary |-> ""]

\* C30: nothing of a failed chunk reaches the returned ExtractionResult: neither the
\* fallback summary stored in a failed chunk's result nor its failure message occurs
\* in the final summary or keyTakeaway, and when every chunk result is a failure the
\* result has empty companies, concepts, quotes and summary and the placeholder
\* key takeaway.
C30_FailedChunksLeaveNoTrace ==
  Returned =>
    /\ \A text \in FailedTexts(progress.chunkResults) \cup FallbackSummaries \cup Errors :
         /\ ~Contains(run.final.value.summary, text)
         /\ ~Contains(run.final.value.keyTakeaway, text)
    /\ progress.completedChunks = 0 => run.final.value = EmptyResult

\* a run returned a non-empty summary although its first chunk had failed and been
\* given the fallback summary
C30_Witness ==
  /\ Returned
  /\ Len(progress.chunkResults) = 2
  /\ ~progress.chunkResults[1].success
  /\ progress.chunkResults[1].result.summary \in FallbackSummaries
  /\ progress.chunkResults[2].success
  /\ run.final.value.summary # ""

----------------------------------------------------------------------------
(* Router: claims C31 - C33 *)

\* the step is a recordTelemetry call
Recorded == Len(history') = Len(history) + 1

\* the model of the entry recorded by the step
RecordedModel == history'[Len(history')].model

\* limits of getModelTelemetry asked about: one entry, the default, the whole log
FrameLimits == {1, 100, MAX_TELEMETRY_ENTRIES}

\* the effective latency of the model meets the config's limit
Viable(store, model, config) ==
  NumLeq(getCurrentLatency(store, model), Rat(config.maxLatencyMs, 1))

\* the step changes nothing of what the router reports about the registry model
SameReports(model) ==
  /\ \A limit \in FrameLimits :
       getModelTelemetry(telemetryStore', model.fullName, limit)
         = getModelTelemetry(telemetryStore, model.fullName, limit)
  /\ getModelStats(telemetryStore', model.fullName)
       = getModelStats(telemetryStore, model.fullName)
  /\ getCurrentLatency(telemetryStore', model) = getCurrentLatency(telemetryStore, model)
  /\ \A config \in ValidConfigs :
       Viable(telemetryStore', model, config) <=> Viable(telemetryStore, model, config)

OtherModels ==
  {MODEL_REGISTRY[i] : i \in {j \in 1..Len(MODEL_REGISTRY) :
                                MODEL_REGISTRY[j].fullName # RecordedModel}}

\* the step evicts an entry of the model
Evicts(model) ==
  /\ Len(telemetryStore) = MAX_TELEMETRY_ENTRIES
  /\ telemetryStore[1].model = model.fullName

\* C31: recording telemetry for one model never changes another model's query
\* result, stats or effective latency, nor whether that other model is viable for a
\* config.
C31_RecordingLeavesOtherModels ==
  [][Recorded => \A model \in OtherModels : SameReports(model)]_vars

\* C31 as amended: the same, unless the call evicts an entry of that other model
\* (the log was full and its oldest entry was that model's).
C31_RecordingLeavesOtherModelsUnlessEvicted ==
  [][Recorded => \A model \in OtherModels : ~Evicts(model) => SameReports(model)]_vars

\* a call of openai/gpt-5-mini was recorded into a full log that still holds entries
\* of openai/gpt-5.1-thinking, and it evicted an entry of openai/gpt-5-mini
C31_Witness ==
  /\ Len(history) > MAX_TELEMETRY_ENTRIES
  /\ history[Len(history)].model = "openai/gpt-5-mini"
  /\ history[Len(history) - MAX_TELEMETRY_ENTRIES].model = "openai/gpt-5-mini"
  /\ \E i \in 1..Len(telemetryStore) : telemetryStore[i].model = "openai/gpt-5.1-thinking"

\* the callCount fields of a list of statistics
CallCounts(stats) == [i \in 1..Len(stats) |-> stats[i].callCount]

\* C32: getRoutingStats reports over the 100 most recent log entries only:
\* totalCalls = min(log length, 100), the callCounts of modelStats and those of
\* taskStats each sum to totalCalls, and recentCalls is the at most 20 most recent
\* entries, the most recent first.
C32_RoutingStatsOverRecent ==
  lastCall.op = "getRoutingStats" =>
    /\ lastCall.result.totalCalls = Min(Len(telemetryStore), 100)
    /\ SumSeq(CallCounts(lastCall.result.modelStats)) = lastCall.result.totalCalls
    /\ SumSeq(CallCounts(lastCall.result.taskStats)) = lastCall.result.totalCalls
    /\ lastCall.result.recentCalls
         = MostRecentFirst(telemetryStore, Min(Len(telemetryStore), 20))

\* routing statistics of a log of more than 100 entries, with several models and
\* two tasks among the 100 most recent
C32_Witness ==
  /\ lastCall.op = "getRoutingStats"
  /\ Len(telemetryStore) > 100
  /\ lastCall.result.totalCalls = 100
  /\ Len(lastCall.result.modelStats) > 2
  /\ Len(lastCall.result.taskStats) = 2
  /\ Len(lastCall.result.recentCalls) = 20

\* C33: in compareFastVsReasoning every generation call appends exactly one
\* telemetry entry whether it returns or throws (two entries per run, in call
\* order), the entry's success flag is the call's outcome, a failed call is recorded
\* with cost 0, and the second model is called also when the first call failed.
C33_OneEntryPerCall ==
  /\ Len(history) = Len(comparison.outcomes)
  /\ telemetryStore = history
  /\ \A k \in 1..Len(comparison.outcomes) :
       /\ history[k].model = comparison.started[k]
       /\ history[k].success = comparison.outcomes[k]
       /\ ~comparison.outcomes[k] => history[k].cost = 0
  /\ Len(comparison.outcomes) >= 1 =>
       comparison.started = <<"openai/gpt-5.1-thinking", "openai/gpt-5-mini">>
  /\ comparison.pc = "done" => Len(history) = 2

\* the run is over: the first call failed, the second returned; two entries in call
\* order
C33_Witness ==
  /\ comparison.pc = "done"
  /\ comparison.outcomes = <<FALSE, TRUE>>
  /\ Len(telemetryStore) = 2
  /\ telemetryStore[1].model = "openai/gpt-5.1-thinking"
  /\ ~telemetryStore[1].success
  /\ telemetryStore[2].cost > 0

====
